---- MODULE Spec2Model ----
(***************************************************************************)
(* State-machine model of the WhatsApp / OpenAI-assistant bot.             *)
(*                                                                         *)
(* Spec      : src/src/app.ts - inbound aggregator (mainFlow), the         *)
(*             per-conversation dispatcher (handleQueue), the response     *)
(*             emitter (processUserMessage) and the manual-message         *)
(*             correlator (messages.upsert listener,                       *)
(*             syncManualMessageToOpenAI).                                 *)
(* SpecRetry : src/unnamed/part_002 - getAssistantResponse (cache, retry   *)
(*             loop with exponential backoff).                             *)
(*                                                                         *)
(* Time.  Node fires a timer no earlier than its delay, and the debounce   *)
(* (6000 ms) and cooldown (3000 ms) timers race with each other, so the    *)
(* two are modelled as countdowns in ticks of TickMs.  Every event may     *)
(* happen at any tick; an expired timer must fire before time advances.    *)
(* The 500 ms thread-save timer, the 150 ms chunk pacing and the 300000 ms *)
(* registry expiry are modelled as callbacks that fire at any later point. *)
(*                                                                         *)
(* JavaScript runs a handler to its next await without interruption, so    *)
(* each action is one such run-to-completion segment.                      *)
(***************************************************************************)
EXTENDS Integers, Sequences, FiniteSets, TLC

(* ------------------------------ bounds -------------------------------- *)
MaxInputs == 4      \* inputs of the environment in one behaviour: inbound
                    \* messages, operator messages and response chunks
MaxChunks == 1      \* paragraphs of one assistant response

Convs == {"c1", "c2"}
\* the body of the n-th inbound message: "m1", "m2", ...
BodyOf(n) == "m" \o ToString(n)
\* the identifier of the n-th operator message; the transport gives the
\* bot's own sends other identifiers (1, 2, ...)
OperatorId(n) == 100 + n

(* ------------------------- program constants -------------------------- *)
USER_INACTIVITY_TIMEOUT_MS == 6000
OPENAI_COOLDOWN_MS == 3000

RECURSIVE GCD(_, _)
GCD(m, n) == IF n = 0 THEN m ELSE GCD(n, m % n)

TickMs == GCD(USER_INACTIVITY_TIMEOUT_MS, OPENAI_COOLDOWN_MS)
DebounceTicks == USER_INACTIVITY_TIMEOUT_MS \div TickMs
CooldownTicks == OPENAI_COOLDOWN_MS \div TickMs

NoTimer == -1

(* ------------------------------ helpers ------------------------------- *)
\* mutant: the messages are joined with a single line feed
RECURSIVE Join_oneNewline(_)
Join_oneNewline(msgs) ==
    IF Len(msgs) = 0 THEN ""
    ELSE IF Len(msgs) = 1 THEN msgs[1]
    ELSE msgs[1] \o "\n" \o Join_oneNewline(Tail(msgs))

\* Array.prototype.join('\n\n')
RECURSIVE Join(_)
Join(msgs) ==
    IF Len(msgs) = 0 THEN ""
    ELSE IF Len(msgs) = 1 THEN msgs[1]
    ELSE msgs[1] \o "\n\n" \o Join(Tail(msgs))

RemoveAt(s, i) == SubSeq(s, 1, i - 1) \o SubSeq(s, i + 1, Len(s))

RECURSIVE SumN(_)
SumN(s) == IF Len(s) = 0 THEN 0 ELSE Head(s).n + SumN(Tail(s))

\* the two ways the transport names a conversation: the bare number and
\* the full address number@s.whatsapp.net
Forms == {"short", "full"}
Keys == Forms \X Convs
\* jid.split('@')[0] || jid
getShortUserId(key) == <<"short", key[2]>>
\* msg.key.remoteJid of an outgoing event
RemoteJid(c) == <<"full", c>>
\* the thread the assistants plugin keeps in the conversation's bot state
ThreadOf(c) == "thread_" \o c

NoBuffer == [present |-> FALSE, id |-> 0, messages |-> <<>>, lastCtx |-> 0]
NoTask == [body |-> "", ctx |-> 0]

VARIABLES
    senders,             \* the counterparts that write to the bot
    fromForm,            \* form of ctx.from handed over by the provider
    userMessageBuffers,  \* app.ts:40
    userActivityTimers,  \* app.ts:41  (ticks left, NoTimer when absent)
    userQueues,          \* app.ts:38  (conversation -> queue object, 0 absent)
    heap,                \* the queue objects (arrays) by identity
    userLocks,           \* app.ts:39  ("absent", "true", "false")
    drains,              \* live handleQueue invocations per conversation
    clientThreadIds,     \* app.ts:23
    stateThread,         \* thread kept in the conversation's bot state
    pendingSaves,        \* armed setTimeout(..., 500) of app.ts:162
    botSentMessages,     \* app.ts:35
    feed,                \* outgoing events of bot chunks not yet delivered
    syncs,               \* syncManualMessageToOpenAI calls awaiting the backend
    threadLog,           \* messages appended to each thread by the correlator
    nextBuf, nextId, nMsgs, nOps,
    \* history variables
    arrivals,            \* inbound messages per conversation, in order
    flushLog,            \* tasks enqueued per conversation, in order
    startLog,            \* tasks popped per conversation, in order
    cool,                \* ticks of mandatory cooldown still to elapse
    lastHandled,         \* classification of the last outgoing event
    \* getAssistantResponse (SpecRetry)
    rpc,                 \* "idle", "racing", "backoff", "returned", "thrown"
    attempt,             \* the loop variable of the retry loop
    rmsg,                \* the message argument
    lastError,           \* part_002:153
    responseCache,       \* part_002:75, entries in insertion order
    waits,               \* backoff delays (ms) of the current call
    calls,               \* calls of getAssistantResponse so far
    rresult,             \* the string returned by the last call
    \* welcomeFlow and handleQueue of part_002 (SpecWelcome)
    wQueues,             \* part_002:73 userQueues (present, tasks)
    wLocks,              \* part_002:74 userLocks ("absent", "true")
    wDrain,              \* position of the conversation's handleQueue call
    wNotices,            \* "please wait" notices sent per conversation
    wMsgs,               \* inbound messages so far
    \* splitIntoHumanChunks of part_002 (SpecSplit)
    splitText,           \* the text argument, a sequence of characters
    splitChunks,         \* the array returned
    splitDone,           \* the call has returned
    \* one call of processUserMessage of app.ts at a time (SpecProcess)
    pum,                 \* position and loop variables of the call
    wire,                \* calls and returns of the transport in this call
    pumCalls,            \* calls of processUserMessage so far
    \* the dispatcher of part_002 with the retry loop in it (SpecQueueRetry)
    qQueue,              \* part_002:73 userQueues, the tasks of each queue
    qLock,               \* part_002:74 userLocks ("absent", "true")
    qRun,                \* the handleQueue invocation of each conversation
    qReqs,               \* toAsk calls made for the task in hand
    qStarted,            \* tasks popped per conversation, in order
    qMsgs,               \* inbound messages so far
    \* the debounce buffers with the timers of Node made explicit
    \* (SpecAppTimers, SpecOldFlow)
    flowBuffers,         \* userMessageBuffers / manualMessageBuffers
    flowTimers,          \* userActivityTimers / manualActivityTimers
    nodeTimers,          \* the timers setTimeout armed that are still to fire
    flowAwaits,          \* timer callbacks that await their call
    flowCalls,           \* what each flush handed on, in order
    flowArrivals,        \* messages per buffer map and conversation, in order
    flowNextTimer,       \* the next timer handle
    flowIn,              \* messages so far
    \* the registration of messages.upsert listeners in main (SpecListeners)
    socket,              \* provider.socket || provider.vendor (0: none yet)
    upsertListeners,     \* the socket each registered listener is on
    openTimers,          \* armed setTimeout(..., 3000) of app.ts:439
    hasThread,           \* clientThreadIds.has(jid) per conversation
    listenerSyncs,       \* syncManualMessageToOpenAI calls awaiting the backend
    appended,            \* operator messages appended to each thread
    listenIn,            \* events so far
    \* mainFlow from its first line (SpecFromMe)
    fromMeSeen,          \* messages handed to mainFlow with key.fromMe
    \* syncManualMessageToOpenAI of part_001 (SpecNote)
    threadSaved,         \* getThreadId(jid) finds a thread, per conversation
    noteThread,          \* the messages of each thread, in order
    noteRunning,         \* calls that await messages.create
    noteReturned,        \* what each call returned ("none" while running)
    noteCalls,           \* calls so far
    \* OpenAiHandler.processMessage (SpecHandler)
    userThreadMap,       \* gemini_handler.ts:75 (0: no entry)
    handlerCalls,        \* position and locals of each processMessage call
    threadOwners,        \* the user each created thread was created for
    threadMessages,      \* messages.create calls done: thread, user, call
    \* getAssistantResponse called for several conversations (SpecCache)
    sharedCache,         \* part_002:75 responseCache, in insertion order
    askedOn,             \* the messages toAsk put on each conversation's thread
    cacheRun,            \* the getAssistantResponse call of each conversation
    delivered,           \* what each call returned, per conversation
    cacheIn              \* calls so far

appVars == <<senders, fromForm, userMessageBuffers, userActivityTimers,
             userQueues, heap, userLocks, drains, clientThreadIds, stateThread,
             pendingSaves, botSentMessages, feed, syncs, threadLog,
             nextBuf, nextId, nMsgs, nOps>>
histVars == <<arrivals, flushLog, startLog, cool, lastHandled>>
retryVars == <<rpc, attempt, rmsg, lastError, responseCache, waits, calls,
               rresult>>
welcomeVars == <<wQueues, wLocks, wDrain, wNotices, wMsgs>>
splitVars == <<splitText, splitChunks, splitDone>>
processVars == <<pum, wire, pumCalls>>
queueVars == <<qQueue, qLock, qRun, qReqs, qStarted, qMsgs>>
flowVars == <<flowBuffers, flowTimers, nodeTimers, flowAwaits, flowCalls,
              flowArrivals, flowNextTimer, flowIn>>
listenVars == <<socket, upsertListeners, openTimers, hasThread,
                listenerSyncs, appended, listenIn>>
ownVars == <<fromMeSeen>>
noteVars == <<threadSaved, noteThread, noteRunning, noteReturned, noteCalls>>
handlerVars == <<userThreadMap, handlerCalls, threadOwners, threadMessages>>
cacheVars == <<sharedCache, askedOn, cacheRun, delivered, cacheIn>>
vars == <<appVars, histVars, retryVars, welcomeVars, splitVars, processVars,
         queueVars, flowVars, listenVars, ownVars, noteVars, handlerVars,
         cacheVars>>

NoHandled == [id |-> 0, conv |-> "", inRegistry |-> FALSE,
              hadBinding |-> FALSE, outcome |-> "none"]

RetryStart ==
    /\ rpc = "idle" /\ attempt = 0 /\ rmsg = "" /\ lastError = "none"
    /\ responseCache = <<>> /\ waits = <<>> /\ calls = 0 /\ rresult = ""

\* the maps of part_002 when the process has started
WelcomeStart ==
    /\ wQueues = [c \in Convs |-> [present |-> FALSE, tasks |-> <<>>]]
    /\ wLocks = [c \in Convs |-> "absent"]
    /\ wDrain = [c \in Convs |-> "none"]
    /\ wNotices = [c \in Convs |-> 0]
    /\ wMsgs = 0

\* splitIntoHumanChunks has not been called
SplitStart == splitText = <<>> /\ splitChunks = <<>> /\ splitDone = FALSE

\* processUserMessage has not been called
ProcessStart ==
    /\ pum = [c \in Convs |-> [pc |-> "idle", left |-> 0, cur |-> 0]]
    /\ wire = [c \in Convs |-> <<>>]
    /\ pumCalls = 0

NoRun == [pc |-> "none", task |-> 0, attempt |-> 0, left |-> 0]

\* the maps of part_002 when the process has started, no message received
QueueStart ==
    /\ qQueue = [c \in Convs |-> <<>>]
    /\ qLock = [c \in Convs |-> "absent"]
    /\ qRun = [c \in Convs |-> NoRun]
    /\ qReqs = [c \in Convs |-> <<>>]
    /\ qStarted = [c \in Convs |-> <<>>]
    /\ qMsgs = 0

\* the three debounced flows: mainFlow of app.ts, mainFlow of part_001 and
\* handleManualMessage of part_001
AppUser == "app.ts mainFlow"
OldUser == "part_001 mainFlow"
OldManual == "part_001 handleManualMessage"
Flows == {AppUser, OldUser, OldManual}

NoFlowBuffer == [present |-> FALSE, messages |-> <<>>]

\* the buffer and timer maps when the process has started
FlowStart ==
    /\ flowBuffers = [f \in Flows |-> [c \in Convs |-> NoFlowBuffer]]
    /\ flowTimers = [f \in Flows |-> [c \in Convs |-> 0]]
    /\ nodeTimers = {}
    /\ flowAwaits = {}
    /\ flowCalls = [f \in Flows |-> [c \in Convs |-> <<>>]]
    /\ flowArrivals = [f \in Flows |-> [c \in Convs |-> <<>>]]
    /\ flowNextTimer = 1
    /\ flowIn = 0

ListenStart ==
    /\ socket = 0
    /\ upsertListeners = <<>>
    /\ openTimers = 0
    /\ hasThread = [c \in Convs |-> FALSE]
    /\ listenerSyncs = {}
    /\ appended = [c \in Convs |-> <<>>]
    /\ listenIn = 0

OwnStart == fromMeSeen = {}

MaxNoteCalls == 3   \* calls of syncManualMessageToOpenAI in one behaviour

NoteStart ==
    /\ threadSaved = [c \in Convs |-> FALSE]
    /\ noteThread = [c \in Convs |-> <<>>]
    /\ noteRunning = {}
    /\ noteReturned = [n \in 1..MaxNoteCalls |-> "none"]
    /\ noteCalls = 0

MaxHandlerCalls == 2   \* calls of processMessage in one behaviour

Users == {"u1", "u2"}

NoCall == [pc |-> "none", user |-> "", thread |-> 0, run |-> "none",
           seen |-> "none"]

HandlerStart ==
    /\ userThreadMap = [u \in Users |-> 0]
    /\ handlerCalls = [n \in 1..MaxHandlerCalls |-> NoCall]
    /\ threadOwners = <<>>
    /\ threadMessages = {}

NoCacheRun == [pc |-> "idle", msg |-> "", attempt |-> 0, asked |-> 0]

CacheStart ==
    /\ sharedCache = <<>>
    /\ askedOn = [c \in Convs |-> <<>>]
    /\ cacheRun = [c \in Convs |-> NoCacheRun]
    /\ delivered = [c \in Convs |-> <<>>]
    /\ cacheIn = 0

RetryIdle == RetryStart /\ WelcomeStart /\ SplitStart /\ ProcessStart
             /\ QueueStart /\ FlowStart /\ ListenStart /\ OwnStart /\ NoteStart
             /\ HandlerStart /\ CacheStart

\* the maps and sets of app.ts when the process has started
AppStart ==
    /\ fromForm \in Forms
    /\ userMessageBuffers = [c \in Convs |-> NoBuffer]
    /\ userActivityTimers = [c \in Convs |-> NoTimer]
    /\ userQueues = [c \in Convs |-> 0]
    /\ heap = <<>>
    /\ userLocks = [c \in Convs |-> "absent"]
    /\ drains = [c \in Convs |-> <<>>]
    /\ clientThreadIds = [k \in Keys |-> "none"]
    /\ stateThread = [c \in Convs |-> "none"]
    /\ pendingSaves = [c \in Convs |-> 0]
    /\ botSentMessages = {}
    /\ feed = {}
    /\ syncs = {}
    /\ threadLog = [c \in Convs |-> <<>>]
    /\ nextBuf = 1 /\ nextId = 1 /\ nMsgs = 0 /\ nOps = 0
    /\ arrivals = [c \in Convs |-> <<>>]
    /\ flushLog = [c \in Convs |-> <<>>]
    /\ startLog = [c \in Convs |-> <<>>]
    /\ cool = [c \in Convs |-> 0]
    /\ lastHandled = NoHandled

AppInit == senders = {"c1"} /\ AppStart

Init == AppInit /\ RetryIdle

\* ctx.from of an inbound message of conversation c
FromKey(c) == <<fromForm, c>>

\* inputs consumed so far
Inputs == nMsgs + nOps + (nextId - 1)

(* ------------------------- mainFlow (app.ts) -------------------------- *)
\* mutant: the buffer keeps only the latest message
BufferAfterPush_replace(old, id, body, ctx) ==
    [present |-> TRUE, id |-> IF old.present THEN old.id ELSE id,
     messages |-> <<body>>, lastCtx |-> ctx]

\* mutant: the reply context stored when the buffer was created is kept
BufferAfterPush_firstCtx(old, id, body, ctx) ==
    LET userBuffer == IF old.present THEN old
                      ELSE [present |-> TRUE, id |-> id,
                            messages |-> <<>>, lastCtx |-> ctx]
    IN [userBuffer EXCEPT !.messages = Append(@, body)]

\* app.ts:287-298: get the conversation's buffer or create it (with the
\* identity id), push the body, replace the stored reply context
BufferAfterPush(old, id, body, ctx) ==
    LET userBuffer == IF old.present THEN old
                      ELSE [present |-> TRUE, id |-> id,
                            messages |-> <<>>, lastCtx |-> ctx]
    IN [userBuffer EXCEPT !.messages = Append(@, body), !.lastCtx = ctx]

\* mainFlow addAction for a message of the counterpart (key.fromMe false):
\* buffer it, clearTimeout the armed timer, setTimeout a new one.
MainFlow(c) ==
    /\ Inputs < MaxInputs
    /\ c \in senders
    /\ userMessageBuffers' = [userMessageBuffers EXCEPT ![c] =
           BufferAfterPush(@, nextBuf, BodyOf(nMsgs + 1), nMsgs + 1)]
    /\ nextBuf' = IF userMessageBuffers[c].present THEN nextBuf
                  ELSE nextBuf + 1
    /\ userActivityTimers' = [userActivityTimers EXCEPT ![c] = DebounceTicks]
    /\ nMsgs' = nMsgs + 1
    /\ arrivals' = [arrivals EXCEPT ![c] = Append(@,
           [body |-> BodyOf(nMsgs + 1), ctx |-> nMsgs + 1,
            newBurst |-> userActivityTimers[c] = NoTimer])]
    /\ UNCHANGED <<senders, fromForm, userQueues, heap, userLocks, drains,
                   clientThreadIds, stateThread, pendingSaves,
                   botSentMessages, feed, syncs, threadLog, nextId, nOps>>
    /\ UNCHANGED <<flushLog, startLog, cool, lastHandled>>
    /\ UNCHANGED <<retryVars, welcomeVars, splitVars, processVars, queueVars,
                   flowVars, listenVars, ownVars, noteVars, handlerVars,
                   cacheVars>>

(* ------------------------ handleQueue (app.ts) ------------------------ *)
NoDrain == [q |-> 0, pc |-> "none", timer |-> NoTimer, task |-> NoTask,
            left |-> 0, cur |-> 0]

\* mutant: the lock is never seen as held
LockHeld_unchecked(locks, c) == FALSE

\* userLocks.get(userId) as a condition
LockHeld(locks, c) == locks[c] = "true"

\* mutant: queue.pop(), the newest task first
QueueShift_pop(queue) ==
    [task |-> queue[Len(queue)], rest |-> SubSeq(queue, 1, Len(queue) - 1)]

\* queue.shift(): the oldest task and the rest
QueueShift(queue) == [task |-> Head(queue), rest |-> Tail(queue)]

\* mutant: an invocation that finds the lock held deletes it on its way out
LoopTop_releases(c, q, S) ==
    IF LockHeld(S.locks, c)
    THEN [heap |-> S.heap, locks |-> [S.locks EXCEPT ![c] = "absent"],
          queues |-> S.queues, drain |-> <<>>, started |-> <<>>]
    ELSE IF Len(S.heap[q]) > 0
    THEN LET sh == QueueShift(S.heap[q])
         IN [heap |-> [S.heap EXCEPT ![q] = sh.rest],
             locks |-> [S.locks EXCEPT ![c] = "true"],
             queues |-> S.queues,
             drain |-> <<[NoDrain EXCEPT !.q = q, !.pc = "asking",
                                         !.task = sh.task]>>,
             started |-> <<sh.task>>]
    ELSE [heap |-> S.heap,
          locks |-> [S.locks EXCEPT ![c] = "absent"],
          queues |-> [S.queues EXCEPT ![c] = 0],
          drain |-> <<>>, started |-> <<>>]

\* mutant: the task is popped without userLocks.set(userId, true)
LoopTop_unlocked(c, q, S) ==
    IF Len(S.heap[q]) > 0
    THEN IF LockHeld(S.locks, c)
         THEN [heap |-> S.heap, locks |-> S.locks, queues |-> S.queues,
               drain |-> <<>>, started |-> <<>>]
         ELSE LET sh == QueueShift(S.heap[q])
              IN [heap |-> [S.heap EXCEPT ![q] = sh.rest],
                  locks |-> S.locks,
                  queues |-> S.queues,
                  drain |-> <<[NoDrain EXCEPT !.q = q, !.pc = "asking",
                                              !.task = sh.task]>>,
                  started |-> <<sh.task>>]
    ELSE IF ~LockHeld(S.locks, c)
         THEN [heap |-> S.heap,
               locks |-> [S.locks EXCEPT ![c] = "absent"],
               queues |-> [S.queues EXCEPT ![c] = 0],
               drain |-> <<>>, started |-> <<>>]
         ELSE [heap |-> S.heap, locks |-> S.locks, queues |-> S.queues,
               drain |-> <<>>, started |-> <<>>]

\* One evaluation of `while (queue.length > 0) { ... }` of the invocation
\* whose local `queue` is the object q, from the loop test up to the first
\* await of processUserMessage or to the return of handleQueue.
\* S = [heap, locks, queues]; the result adds the continuing invocation
\* (drain) and the task it started, each as a sequence of length 0 or 1.
LoopTop(c, q, S) ==
    IF Len(S.heap[q]) > 0
    THEN IF LockHeld(S.locks, c)
         THEN [heap |-> S.heap, locks |-> S.locks, queues |-> S.queues,
               drain |-> <<>>, started |-> <<>>]
         ELSE LET sh == QueueShift(S.heap[q])
              IN [heap |-> [S.heap EXCEPT ![q] = sh.rest],
                  locks |-> [S.locks EXCEPT ![c] = "true"],
                  queues |-> S.queues,
                  drain |-> <<[NoDrain EXCEPT !.q = q, !.pc = "asking",
                                              !.task = sh.task]>>,
                  started |-> <<sh.task>>]
    ELSE IF ~LockHeld(S.locks, c)
         THEN [heap |-> S.heap,
               locks |-> [S.locks EXCEPT ![c] = "absent"],
               queues |-> [S.queues EXCEPT ![c] = 0],
               drain |-> <<>>, started |-> <<>>]
         ELSE [heap |-> S.heap, locks |-> S.locks, queues |-> S.queues,
               drain |-> <<>>, started |-> <<>>]

\* mutant: handleQueue returns before its loop
handleQueue_returns(c, S) ==
    [heap |-> S.heap, locks |-> S.locks, queues |-> S.queues,
     drain |-> <<>>, started |-> <<>>]

\* handleQueue(userId) from its call to its first await or return
handleQueue(c, S) ==
    IF S.queues[c] = 0
    THEN [heap |-> S.heap, locks |-> [S.locks EXCEPT ![c] = "absent"],
          queues |-> S.queues, drain |-> <<>>, started |-> <<>>]
    ELSE IF LockHeld(S.locks, c)
    THEN [heap |-> S.heap, locks |-> S.locks, queues |-> S.queues,
          drain |-> <<>>, started |-> <<>>]
    ELSE LoopTop(c, S.queues[c], S)

\* mutant: the finally block leaves the lock held
Finally_lockKept(c, q, S) ==
    IF Len(S.heap[q]) > 0
    THEN [heap |-> S.heap, locks |-> S.locks, queues |-> S.queues,
          drain |-> <<[NoDrain EXCEPT !.q = q, !.pc = "cooldown",
                                      !.timer = CooldownTicks]>>,
          started |-> <<>>]
    ELSE LoopTop(c, q, S)

\* mutant: the finally block releases the locks of all conversations
Finally_releaseAll(c, q, S) ==
    LET S1 == [S EXCEPT !.locks = [x \in Convs |->
                   IF x = c \/ @[x] = "true" THEN "false" ELSE @[x]]]
    IN IF Len(S1.heap[q]) > 0
       THEN [heap |-> S1.heap, locks |-> S1.locks, queues |-> S1.queues,
             drain |-> <<[NoDrain EXCEPT !.q = q, !.pc = "cooldown",
                                         !.timer = CooldownTicks]>>,
             started |-> <<>>]
       ELSE LoopTop(c, q, S1)

\* the finally block of handleQueue after processUserMessage returned or
\* threw: release the lock, then either start the cooldown wait or fall
\* through to the loop test
Finally(c, q, S) ==
    LET S1 == [S EXCEPT !.locks[c] = "false"]
    IN IF Len(S1.heap[q]) > 0
       THEN [heap |-> S1.heap, locks |-> S1.locks, queues |-> S1.queues,
             drain |-> <<[NoDrain EXCEPT !.q = q, !.pc = "cooldown",
                                         !.timer = CooldownTicks]>>,
             started |-> <<>>]
       ELSE LoopTop(c, q, S1)

Store == [heap |-> heap, locks |-> userLocks, queues |-> userQueues]

\* history of the tasks that started, with the state of the cooldown
Started(c, R, woke) ==
    IF Len(R.started) = 0 THEN startLog
    ELSE [startLog EXCEPT ![c] = Append(@,
             [ctx |-> R.started[1].ctx, body |-> R.started[1].body,
              afterCooldown |-> woke, early |-> cool[c] > 0])]

\* install the result R of a dispatcher segment run by drain i of c
\* (i = 0: a new invocation)
Install(c, i, R, woke) ==
    /\ heap' = R.heap
    /\ userLocks' = R.locks
    /\ userQueues' = R.queues
    /\ drains' = [drains EXCEPT ![c] =
           IF i = 0 THEN @ \o R.drain
           ELSE SubSeq(@, 1, i - 1) \o R.drain \o SubSeq(@, i + 1, Len(@))]
    /\ startLog' = Started(c, R, woke)

(* ---------------- debounce timer callback (app.ts:306) ---------------- *)
\* mutant: the callback leaves the buffer in the map
BufferAfterFlush_kept(buffer) == buffer

\* userMessageBuffers.delete(clientId) at the end of the callback
BufferAfterFlush(buffer) == NoBuffer

Flush(c) ==
    /\ userActivityTimers[c] = 0
    /\ LET finalBuffer == userMessageBuffers[c]
           nonEmpty == finalBuffer.present /\ Len(finalBuffer.messages) > 0
           combinedMessageBody == Join(finalBuffer.messages)
           task == [body |-> combinedMessageBody, ctx |-> finalBuffer.lastCtx]
           fresh == userQueues[c] = 0
           q == IF fresh THEN Len(heap) + 1 ELSE userQueues[c]
           heap1 == IF fresh THEN Append(heap, <<>>) ELSE heap
           S1 == [heap |-> [heap1 EXCEPT ![q] = Append(@, task)],
                  locks |-> userLocks,
                  queues |-> [userQueues EXCEPT ![c] = q]]
           R == IF ~LockHeld(userLocks, c) THEN handleQueue(c, S1)
                ELSE [heap |-> S1.heap, locks |-> S1.locks,
                      queues |-> S1.queues, drain |-> <<>>, started |-> <<>>]
       IN IF nonEmpty
          THEN /\ Install(c, 0, R, FALSE)
               /\ flushLog' = [flushLog EXCEPT ![c] = Append(@,
                      [text |-> combinedMessageBody,
                       n |-> Len(finalBuffer.messages),
                       buf |-> finalBuffer.id, ctx |-> finalBuffer.lastCtx])]
          ELSE UNCHANGED <<heap, userLocks, userQueues, drains, startLog,
                           flushLog>>
    /\ userMessageBuffers' = [userMessageBuffers EXCEPT ![c] =
           BufferAfterFlush(@)]
    /\ userActivityTimers' = [userActivityTimers EXCEPT ![c] = NoTimer]
    /\ UNCHANGED <<senders, fromForm, clientThreadIds, stateThread, pendingSaves,
                   botSentMessages, feed, syncs, threadLog, nextBuf, nextId,
                   nMsgs, nOps>>
    /\ UNCHANGED <<arrivals, cool, lastHandled>>
    /\ UNCHANGED <<retryVars, welcomeVars, splitVars, processVars, queueVars,
                   flowVars, listenVars, ownVars, noteVars, handlerVars,
                   cacheVars>>

(* -------------------- processUserMessage (app.ts) --------------------- *)
\* The end of processUserMessage, by return or by throw, as seen by the
\* invocation of handleQueue that awaits it: catch, finally, loop.
TaskEnd(c, i) ==
    LET d == drains[c][i]
        R == Finally(c, d.q, Store)
    IN /\ Install(c, i, R, FALSE)
       /\ cool' = [cool EXCEPT ![c] =
              IF Len(heap[d.q]) > 0 THEN CooldownTicks ELSE 0]

\* flowDynamic([{ body: cleanedChunk }]) is called: the transport sends the
\* chunk and its outgoing event will reach the messages.upsert listeners
SendChunk(c, i, left) ==
    /\ drains' = [drains EXCEPT ![c][i] =
           [@ EXCEPT !.pc = "sending", !.cur = nextId, !.left = left]]
    /\ feed' = feed \cup {[id |-> nextId, conv |-> c]}
    /\ nextId' = nextId + 1
    /\ UNCHANGED <<heap, userLocks, userQueues, startLog, cool>>

\* toAsk resolves with a response of k non-empty paragraphs; the plugin has
\* stored the thread in the bot state; the 500 ms save timer is armed and
\* the first chunk, if any, is handed to flowDynamic
AskOk(c, i, k) ==
    /\ i \in 1..Len(drains[c])
    /\ drains[c][i].pc = "asking"
    /\ Inputs + k <= MaxInputs
    /\ stateThread' = [stateThread EXCEPT ![c] = ThreadOf(c)]
    /\ pendingSaves' = [pendingSaves EXCEPT ![c] = @ + 1]
    /\ IF k = 0
       THEN TaskEnd(c, i) /\ UNCHANGED <<feed, nextId>>
       ELSE SendChunk(c, i, k - 1)
    /\ UNCHANGED <<senders, fromForm, userMessageBuffers, userActivityTimers,
                   clientThreadIds, botSentMessages, syncs, threadLog,
                   nextBuf, nMsgs, nOps>>
    /\ UNCHANGED <<arrivals, flushLog, lastHandled>>
    /\ UNCHANGED <<retryVars, welcomeVars, splitVars, processVars, queueVars,
                   flowVars, listenVars, ownVars, noteVars, handlerVars,
                   cacheVars>>

\* toAsk rejects, or flowDynamic rejects: processUserMessage throws
TaskThrows(c, i) ==
    /\ i \in 1..Len(drains[c])
    /\ drains[c][i].pc \in {"asking", "sending"}
    /\ TaskEnd(c, i)
    /\ UNCHANGED <<senders, fromForm, userMessageBuffers, userActivityTimers,
                   clientThreadIds, stateThread, pendingSaves,
                   botSentMessages, feed, syncs, threadLog, nextBuf, nextId,
                   nMsgs, nOps>>
    /\ UNCHANGED <<arrivals, flushLog, lastHandled>>
    /\ UNCHANGED <<retryVars, welcomeVars, splitVars, processVars, queueVars,
                   flowVars, listenVars, ownVars, noteVars, handlerVars,
                   cacheVars>>

\* flowDynamic resolves; the identifier is recorded when the result carries
\* key.id (withKey), and the pacing delay starts
SendReturns(c, i, withKey) ==
    /\ i \in 1..Len(drains[c])
    /\ drains[c][i].pc = "sending"
    /\ botSentMessages' = IF withKey
                          THEN botSentMessages \cup {drains[c][i].cur}
                          ELSE botSentMessages
    /\ drains' = [drains EXCEPT ![c][i].pc = "pacing"]
    /\ UNCHANGED <<senders, fromForm, userMessageBuffers, userActivityTimers,
                   userQueues, heap, userLocks, clientThreadIds, stateThread,
                   pendingSaves, feed, syncs, threadLog, nextBuf, nextId,
                   nMsgs, nOps>>
    /\ UNCHANGED histVars
    /\ UNCHANGED <<retryVars, welcomeVars, splitVars, processVars, queueVars,
                   flowVars, listenVars, ownVars, noteVars, handlerVars,
                   cacheVars>>

\* the CHUNK_DELAY_MS wait is over: next chunk, or the function returns
PacingDone(c, i) ==
    /\ i \in 1..Len(drains[c])
    /\ drains[c][i].pc = "pacing"
    /\ IF drains[c][i].left > 0
       THEN SendChunk(c, i, drains[c][i].left - 1)
       ELSE TaskEnd(c, i) /\ UNCHANGED <<feed, nextId>>
    /\ UNCHANGED <<senders, fromForm, userMessageBuffers, userActivityTimers,
                   clientThreadIds, stateThread, pendingSaves,
                   botSentMessages, syncs, threadLog, nextBuf, nMsgs, nOps>>
    /\ UNCHANGED <<arrivals, flushLog, lastHandled>>
    /\ UNCHANGED <<retryVars, welcomeVars, splitVars, processVars, queueVars,
                   flowVars, listenVars, ownVars, noteVars, handlerVars,
                   cacheVars>>

\* the OPENAI_COOLDOWN_MS wait of an invocation is over: back to the loop
CooldownWake(c, i) ==
    /\ i \in 1..Len(drains[c])
    /\ drains[c][i].pc = "cooldown"
    /\ drains[c][i].timer = 0
    /\ Install(c, i, LoopTop(c, drains[c][i].q, Store), TRUE)
    /\ UNCHANGED <<senders, fromForm, userMessageBuffers, userActivityTimers,
                   clientThreadIds, stateThread, pendingSaves,
                   botSentMessages, feed, syncs, threadLog, nextBuf, nextId,
                   nMsgs, nOps>>
    /\ UNCHANGED <<arrivals, flushLog, cool, lastHandled>>
    /\ UNCHANGED <<retryVars, welcomeVars, splitVars, processVars, queueVars,
                   flowVars, listenVars, ownVars, noteVars, handlerVars,
                   cacheVars>>

\* mutant: a thread that is not found in the bot state removes the binding
SaveThread_clears(c, found) ==
    /\ pendingSaves[c] > 0
    /\ pendingSaves' = [pendingSaves EXCEPT ![c] = @ - 1]
    /\ clientThreadIds' =
           IF found /\ stateThread[c] # "none"
           THEN [clientThreadIds EXCEPT ![FromKey(c)] = stateThread[c]]
           ELSE [clientThreadIds EXCEPT ![FromKey(c)] = "none"]
    /\ UNCHANGED <<senders, fromForm, userMessageBuffers, userActivityTimers,
                   userQueues, heap, userLocks, drains, stateThread,
                   botSentMessages, feed, syncs, threadLog, nextBuf, nextId,
                   nMsgs, nOps>>
    /\ UNCHANGED histVars
    /\ UNCHANGED <<retryVars, welcomeVars, splitVars, processVars, queueVars,
                   flowVars, listenVars, ownVars, noteVars, handlerVars,
                   cacheVars>>

\* the setTimeout(..., 500) callback of processUserMessage: read the thread
\* from the bot state (found: the state exposes it under the keys read)
SaveThread(c, found) ==
    /\ pendingSaves[c] > 0
    /\ pendingSaves' = [pendingSaves EXCEPT ![c] = @ - 1]
    /\ clientThreadIds' =
           IF found /\ stateThread[c] # "none"
           THEN [clientThreadIds EXCEPT ![FromKey(c)] = stateThread[c]]
           ELSE clientThreadIds
    /\ UNCHANGED <<senders, fromForm, userMessageBuffers, userActivityTimers,
                   userQueues, heap, userLocks, drains, stateThread,
                   botSentMessages, feed, syncs, threadLog, nextBuf, nextId,
                   nMsgs, nOps>>
    /\ UNCHANGED histVars
    /\ UNCHANGED <<retryVars, welcomeVars, splitVars, processVars, queueVars,
                   flowVars, listenVars, ownVars, noteVars, handlerVars,
                   cacheVars>>

\* setTimeout(() => botSentMessages.delete(id), 300000)
Expire(id) ==
    /\ id \in botSentMessages
    /\ botSentMessages' = botSentMessages \ {id}
    /\ UNCHANGED <<senders, fromForm, userMessageBuffers, userActivityTimers,
                   userQueues, heap, userLocks, drains, clientThreadIds,
                   stateThread, pendingSaves, feed, syncs, threadLog,
                   nextBuf, nextId, nMsgs, nOps>>
    /\ UNCHANGED histVars
    /\ UNCHANGED <<retryVars, welcomeVars, splitVars, processVars, queueVars,
                   flowVars, listenVars, ownVars, noteVars, handlerVars,
                   cacheVars>>

(* ------------- manual-message correlator (app.ts:392-426) ------------- *)
\* mutant: a missing binding is replaced by a new thread (get-or-create)
ThreadIdOf_orCreate(map, jid) ==
    IF map[jid] # "none" THEN map[jid] ELSE "thread_new"

\* clientThreadIds.get(jid) / clientThreadIds.has(jid)
ThreadIdOf(map, jid) == map[jid]

\* mutant: the registry is not consulted
SelfEcho_never(registry, id) == FALSE

\* botSentMessages.has(messageId)
SelfEcho(registry, id) == id \in registry

ConvHasBinding(c) == \E k \in Keys : k[2] = c /\ clientThreadIds[k] # "none"

\* One message of a messages.upsert event with key.fromMe, a text body and
\* the identifier id, addressed to conversation c: the listener up to the
\* await inside syncManualMessageToOpenAI (messages.create) or to its end.
Upsert(c, id) ==
    LET jid == RemoteJid(c)
        inRegistry == id \in botSentMessages
        threadId == ThreadIdOf(clientThreadIds, jid)
        outcome == IF SelfEcho(botSentMessages, id) THEN "echo"
                   ELSE IF threadId # "none" THEN "sync"
                   ELSE "dropped"
    IN /\ syncs' = IF outcome = "sync"
                   THEN syncs \cup {[id |-> id, conv |-> c,
                                     thread |-> threadId]}
                   ELSE syncs
       /\ lastHandled' = [id |-> id, conv |-> c, inRegistry |-> inRegistry,
                          hadBinding |-> ConvHasBinding(c),
                          outcome |-> outcome]

\* an operator sends a message to conversation c from the account
OperatorMessage(c) ==
    /\ Inputs < MaxInputs
    /\ nOps' = nOps + 1
    /\ Upsert(c, OperatorId(nOps + 1))
    /\ UNCHANGED <<senders, fromForm, userMessageBuffers, userActivityTimers,
                   userQueues, heap, userLocks, drains, clientThreadIds,
                   stateThread, pendingSaves, botSentMessages, feed,
                   threadLog, nextBuf, nextId, nMsgs>>
    /\ UNCHANGED <<arrivals, flushLog, startLog, cool>>
    /\ UNCHANGED <<retryVars, welcomeVars, splitVars, processVars, queueVars,
                   flowVars, listenVars, ownVars, noteVars, handlerVars,
                   cacheVars>>

\* the outgoing event of a chunk sent by the bot reaches the listener
DeliverEcho(e) ==
    /\ e \in feed
    /\ feed' = feed \ {e}
    /\ Upsert(e.conv, e.id)
    /\ UNCHANGED <<senders, fromForm, userMessageBuffers, userActivityTimers,
                   userQueues, heap, userLocks, drains, clientThreadIds,
                   stateThread, pendingSaves, botSentMessages, threadLog,
                   nextBuf, nextId, nMsgs, nOps>>
    /\ UNCHANGED <<arrivals, flushLog, startLog, cool>>
    /\ UNCHANGED <<retryVars, welcomeVars, splitVars, processVars, queueVars,
                   flowVars, listenVars, ownVars, noteVars, handlerVars,
                   cacheVars>>

\* openai.beta.threads.messages.create of syncManualMessageToOpenAI
\* resolves (ok) or rejects
SyncDone(s, ok) ==
    /\ s \in syncs
    /\ syncs' = syncs \ {s}
    /\ threadLog' = IF ok THEN [threadLog EXCEPT ![s.conv] = Append(@, s.id)]
                    ELSE threadLog
    /\ UNCHANGED <<senders, fromForm, userMessageBuffers, userActivityTimers,
                   userQueues, heap, userLocks, drains, clientThreadIds,
                   stateThread, pendingSaves, botSentMessages, feed,
                   nextBuf, nextId, nMsgs, nOps>>
    /\ UNCHANGED histVars
    /\ UNCHANGED <<retryVars, welcomeVars, splitVars, processVars, queueVars,
                   flowVars, listenVars, ownVars, noteVars, handlerVars,
                   cacheVars>>

(* -------------------------------- time -------------------------------- *)
Expired ==
    \/ \E c \in Convs : userActivityTimers[c] = 0
    \/ \E c \in Convs : \E i \in 1..Len(drains[c]) :
           drains[c][i].pc = "cooldown" /\ drains[c][i].timer = 0

Armed ==
    \/ \E c \in Convs : userActivityTimers[c] > 0 \/ cool[c] > 0
    \/ \E c \in Convs : \E i \in 1..Len(drains[c]) : drains[c][i].timer > 0

Dec(t) == IF t > 0 THEN t - 1 ELSE t

\* TickMs elapse: no expired timer is left unfired
Tick ==
    /\ ~Expired
    /\ Armed
    /\ userActivityTimers' = [c \in Convs |-> Dec(userActivityTimers[c])]
    /\ drains' = [c \in Convs |->
           [i \in 1..Len(drains[c]) |->
               [drains[c][i] EXCEPT !.timer = Dec(@)]]]
    /\ cool' = [c \in Convs |-> Dec(cool[c])]
    /\ UNCHANGED <<senders, fromForm, userMessageBuffers, userQueues, heap, userLocks,
                   clientThreadIds, stateThread, pendingSaves,
                   botSentMessages, feed, syncs, threadLog, nextBuf, nextId,
                   nMsgs, nOps>>
    /\ UNCHANGED <<arrivals, flushLog, startLog, lastHandled>>
    /\ UNCHANGED <<retryVars, welcomeVars, splitVars, processVars, queueVars,
                   flowVars, listenVars, ownVars, noteVars, handlerVars,
                   cacheVars>>

Next ==
    \/ \E c \in Convs : MainFlow(c)
    \/ \E c \in Convs : Flush(c)
    \/ \E c \in Convs : \E i \in 1..Len(drains[c]) :
           \E k \in 0..MaxChunks : AskOk(c, i, k)
    \/ \E c \in Convs : \E i \in 1..Len(drains[c]) : TaskThrows(c, i)
    \/ \E c \in Convs : \E i \in 1..Len(drains[c]) :
           \E withKey \in BOOLEAN : SendReturns(c, i, withKey)
    \/ \E c \in Convs : \E i \in 1..Len(drains[c]) : PacingDone(c, i)
    \/ \E c \in Convs : \E i \in 1..Len(drains[c]) : CooldownWake(c, i)
    \/ \E c \in Convs : \E found \in BOOLEAN : SaveThread(c, found)
    \/ \E id \in botSentMessages : Expire(id)
    \/ \E c \in Convs : OperatorMessage(c)
    \/ \E e \in feed : DeliverEcho(e)
    \/ \E s \in syncs : \E ok \in BOOLEAN : SyncDone(s, ok)
    \/ Tick

Spec == Init /\ [][Next]_vars

(* ======================= properties of app.ts ========================= *)
\* the queue object of c, <<>> when c has no entry in userQueues
QueueOf(c) == IF userQueues[c] = 0 THEN <<>> ELSE heap[userQueues[c]]

\* the invocations of c that hold a popped task: processUserMessage has
\* been called and has neither returned nor thrown
InFlight(c) ==
    {i \in 1..Len(drains[c]) : drains[c][i].pc \in {"asking", "sending", "pacing"}}

Sleeping(c) ==
    {i \in 1..Len(drains[c]) : drains[c][i].pc = "cooldown"}

\* the bursts of a conversation: its arrivals cut before every message
\* that found no timer armed
RECURSIVE BurstsOf(_)
BurstsOf(arr) ==
    IF Len(arr) = 0 THEN <<>>
    ELSE LET init == BurstsOf(SubSeq(arr, 1, Len(arr) - 1))
             last == arr[Len(arr)]
         IN IF last.newBurst \/ Len(init) = 0
            THEN Append(init, <<last.body>>)
            ELSE [init EXCEPT ![Len(init)] = Append(@, last.body)]

\* bodies separated by two line feeds, built from the left
RECURSIVE Separated(_)
Separated(bodies) ==
    IF Len(bodies) = 0 THEN ""
    ELSE IF Len(bodies) = 1 THEN bodies[1]
    ELSE Separated(SubSeq(bodies, 1, Len(bodies) - 1))
             \o "\n\n" \o bodies[Len(bodies)]

ClosedBursts(c) ==
    LET bs == BurstsOf(arrivals[c])
    IN IF userActivityTimers[c] = NoTimer THEN bs
       ELSE SubSeq(bs, 1, Len(bs) - 1)

\* C1: in every reachable state every conversation has at most one
\* DispatchTask being processed, whatever the interleaving of flushes,
\* task completions and cooldown wake-ups.
C1_AtMostOneInFlight ==
    \A c \in Convs : Cardinality(InFlight(c)) <= 1

\* a second invocation processes a task while an earlier one sleeps in
\* its cooldown
C1_Witness ==
    \E c \in Convs : InFlight(c) # {} /\ Sleeping(c) # {}

\* C2: every burst (messages each arriving while the timer of the previous
\* one is still armed) whose timer has fired produced exactly one task, whose
\* text is the bodies of the burst in arrival order separated by "\n\n".
C2_OneTaskPerBurst ==
    \A c \in Convs :
        /\ Len(flushLog[c]) = Len(ClosedBursts(c))
        /\ \A i \in 1..Len(flushLog[c]) :
               /\ flushLog[c][i].text = Separated(ClosedBursts(c)[i])
               /\ flushLog[c][i].n = Len(ClosedBursts(c)[i])

\* a burst of two or more messages has been flushed
C2_Witness ==
    \E c \in Convs : \E i \in 1..Len(flushLog[c]) : flushLog[c][i].n >= 2

Gaps(c) == {j \in 2..Len(arrivals[c]) : arrivals[c][j].newBurst}

\* C3: when the timer expired between two consecutive messages, a task ends
\* exactly at that gap (it holds the messages up to the one before the gap
\* and none after it), and once the last timer has fired there are at least
\* two tasks.
C3_PartitionedAtGap ==
    \A c \in Convs :
        /\ \A j \in Gaps(c) :
               \E m \in 1..Len(flushLog[c]) :
                   /\ SumN(SubSeq(flushLog[c], 1, m)) = j - 1
                   /\ flushLog[c][m].ctx = arrivals[c][j - 1].ctx
        /\ (Gaps(c) # {} /\ userActivityTimers[c] = NoTimer)
               => /\ Len(flushLog[c]) >= 2
                  /\ SumN(flushLog[c]) = Len(arrivals[c])

C3_Witness ==
    \E c \in Convs :
        Gaps(c) # {} /\ userActivityTimers[c] = NoTimer
                     /\ Len(flushLog[c]) >= 2

\* the arrivals of c that the i-th task of c was made from
TaskArrivals(c, i) ==
    LET last == SumN(SubSeq(flushLog[c], 1, i))
    IN SubSeq(arrivals[c], last - flushLog[c][i].n + 1, last)

\* C29: the reply context (lastCtx, flowDynamic, state, provider) of every
\* task is the one of the last message pushed onto the buffer before the
\* flush, and its body is the bodies of all the messages of that buffer
\* joined with "\n\n".
C29_TaskCarriesLastContext ==
    \A c \in Convs : \A i \in 1..Len(flushLog[c]) :
        LET burst == TaskArrivals(c, i)
        IN /\ Len(burst) = flushLog[c][i].n
           /\ Len(burst) >= 1
           /\ flushLog[c][i].ctx = burst[Len(burst)].ctx
           /\ flushLog[c][i].text =
                  Separated([j \in 1..Len(burst) |-> burst[j].body])

\* a task made from two or more messages is in the queue or in hand and
\* carries the context of the last of them, not of the first
C29_Witness ==
    \E c \in Convs : \E i \in 1..Len(flushLog[c]) :
        /\ flushLog[c][i].n >= 2
        /\ flushLog[c][i].ctx = TaskArrivals(c, i)[flushLog[c][i].n].ctx
        /\ flushLog[c][i].ctx # TaskArrivals(c, i)[1].ctx

\* C32: the lock of a conversation is true exactly while a task popped from
\* its queue is being processed (processUserMessage has been called and has
\* neither returned nor thrown): it is set in the step that pops the task
\* and it is not true once the task has ended, by return or by throw.
C32_LockExactlyWhileProcessing ==
    \A c \in Convs : (userLocks[c] = "true") <=> (InFlight(c) # {})

\* the only task started so far threw before toAsk answered; the lock was
\* set to false and the invocation waits its cooldown for the next task
C32_Witness ==
    \E c \in Convs :
        /\ Len(startLog[c]) = 1
        /\ stateThread[c] = "none"
        /\ InFlight(c) = {}
        /\ Sleeping(c) # {}
        /\ userLocks[c] = "false"

\* what handleQueue leaves behind when it does nothing
Untouched ==
    [heap |-> heap, locks |-> userLocks, queues |-> userQueues,
     drain |-> <<>>, started |-> <<>>]

\* C34: an invocation of handleQueue that finds the lock of its
\* conversation held returns in the same step, at its entry or at its loop
\* test after the cooldown: the queues, the locks, the log of started tasks
\* and the invocation that holds the task in flight stay as they were.
C34_LockedInvocationReturns ==
    /\ [](\A c \in Convs :
              LockHeld(userLocks, c) => handleQueue(c, Store) = Untouched)
    /\ [][\A c \in Convs : \A i \in 1..Len(drains[c]) :
              (CooldownWake(c, i) /\ LockHeld(userLocks, c))
                  => /\ UNCHANGED <<heap, userLocks, userQueues, startLog>>
                     /\ drains' = [drains EXCEPT ![c] = RemoveAt(@, i)]]_vars

\* the second task was started by a new invocation while the first one
\* was in its cooldown; that one has woken up since, found the lock held
\* and returned, and the second task is still in flight
C34_Witness ==
    \E c \in Convs :
        /\ Len(startLog[c]) = 2
        /\ startLog[c][2].early
        /\ ~startLog[c][2].afterCooldown
        /\ InFlight(c) # {}
        /\ Sleeping(c) = {}

\* C4: the tasks of a conversation start processing in the order in which
\* they were enqueued.
C4_StartInEnqueueOrder ==
    \A c \in Convs :
        /\ Len(startLog[c]) <= Len(flushLog[c])
        /\ \A i \in 1..Len(startLog[c]) :
               /\ startLog[c][i].ctx = flushLog[c][i].ctx
               /\ startLog[c][i].body = flushLog[c][i].text

\* three tasks have started, the last from a queue object created after
\* the first one had been deleted, while another invocation is still alive
C4_Witness ==
    \E c \in Convs :
        /\ Len(startLog[c]) >= 3
        /\ Len(heap) >= 2
        /\ Len(drains[c]) >= 1

\* C5: a buffer whose messages a flush has read is no longer reachable
\* through userMessageBuffers once the callback is over, and its timer entry
\* is gone with it: no later message can be appended to it.
C5_FlushAtomic ==
    \A c \in Convs :
        /\ userMessageBuffers[c].present =>
               \A i \in 1..Len(flushLog[c]) :
                   flushLog[c][i].buf # userMessageBuffers[c].id
        /\ userMessageBuffers[c].present <=> userActivityTimers[c] # NoTimer

\* a message arrived after a flush and sits in a new buffer
C5_Witness ==
    \E c \in Convs :
        Len(flushLog[c]) >= 1 /\ userMessageBuffers[c].present

\* C6: no manual append of a conversation is in progress while an automated
\* DispatchTask of the same conversation is in flight.
C6_SyncUnderLock ==
    \A c \in Convs :
        ~(InFlight(c) # {} /\ \E s \in syncs : s.conv = c)

IsOperatorId(id) == \E n \in 1..MaxInputs : id = OperatorId(n)

Handles == lastHandled' # lastHandled

\* C7: an operator message for a conversation without thread binding is
\* dropped: no backend call starts for it and the buffers, timers, queues,
\* locks, bindings and threads stay as they were.
C7_UnboundManualDropped ==
    [][(Handles /\ IsOperatorId(lastHandled'.id)
               /\ ~lastHandled'.hadBinding)
          => /\ lastHandled'.outcome = "dropped"
             /\ UNCHANGED <<userMessageBuffers, userActivityTimers,
                            userQueues, heap, userLocks, drains,
                            clientThreadIds, syncs, threadLog>>]_vars

C7_Witness ==
    /\ IsOperatorId(lastHandled.id)
    /\ ~lastHandled.hadBinding
    /\ lastHandled.outcome = "dropped"

\* C8: an outgoing event whose identifier is in botSentMessages when the
\* listener handles it is classified as the bot's own: no sync call starts
\* and nothing is appended to a thread.
C8_RecordedIsSelfEcho ==
    [][(Handles /\ lastHandled'.inRegistry)
          => /\ lastHandled'.outcome = "echo"
             /\ UNCHANGED <<syncs, threadLog>>]_vars

C8_Witness ==
    lastHandled.inRegistry /\ lastHandled.outcome = "echo"

\* C31: a binding stored by processUserMessage for a conversation is found
\* by the listener for the same conversation, whichever form ctx.from had
\* when it was stored: an operator message handled while some key of its
\* conversation holds a thread id starts the sync call.
C31_BindingFoundByCorrelator ==
    (IsOperatorId(lastHandled.id) /\ lastHandled.hadBinding)
        => lastHandled.outcome = "sync"

\* C24: no chunk sent by processUserMessage is treated as an operator
\* message, whenever its outgoing event reaches the listener (before
\* flowDynamic has returned and the identifier is in botSentMessages, while
\* it is there, or after it was deleted): no sync call is in progress for
\* the identifier of a chunk and none was appended to a thread.
C24_ChunkNeverManual ==
    /\ \A s \in syncs : IsOperatorId(s.id)
    /\ \A c \in Convs : \A i \in 1..Len(threadLog[c]) :
           IsOperatorId(threadLog[c][i])

\* C9: after a task finished with the queue non-empty, no task of the
\* conversation starts before OPENAI_COOLDOWN_MS have elapsed.
C9_CooldownRespected ==
    \A c \in Convs : \A i \in 1..Len(startLog[c]) : ~startLog[c][i].early

(* --------------------- failures in the dispatcher --------------------- *)
\* the timers of the program fire: the debounce callback, the cooldown
\* wake-up and the passing of time are not postponed forever
SpecTimers ==
    /\ Spec
    /\ WF_vars(Tick)
    /\ \A c \in Convs : WF_vars(Flush(c))
    /\ \A c \in Convs : WF_vars(\E i \in 1..Len(drains[c]) : CooldownWake(c, i))

\* processUserMessage of the task in flight of c throws in this step: the
\* call ends while toAsk or flowDynamic is awaited and no thread save is
\* armed
Throws(c) ==
    /\ \E i \in InFlight(c) : drains[c][i].pc \in {"asking", "sending"}
    /\ InFlight(c)' = {}
    /\ pendingSaves' = pendingSaves

\* tasks of c enqueued and not yet popped
Pending(c) == Len(flushLog[c]) - Len(startLog[c])

\* C11: when the processing of a task throws, the task is abandoned (it is
\* not put back on a queue and not started again), the lock of the
\* conversation is released, and an invocation of handleQueue stays to
\* take the next queued task; whenever a task is queued and none is in
\* flight, the next task is started later on.
C11_FailedTaskAbandonedNextRuns ==
    /\ [][\A c \in Convs : Throws(c) =>
              /\ userLocks'[c] # "true"
              /\ flushLog'[c] = flushLog[c]
              /\ startLog'[c] = startLog[c]
              /\ \A q \in 1..Len(heap) : heap'[q] = heap[q]
              /\ Pending(c) > 0 => Sleeping(c)' # {}]_vars
    /\ \A c \in Convs : \A n \in 0..MaxInputs :
           (Pending(c) > 0 /\ Len(startLog[c]) = n /\ InFlight(c) = {})
               ~> (Len(startLog[c]) > n)

\* after a task that threw while a second one was queued, the second one
\* is being processed: the first task got no response chunk, a later
\* invocation woke from its cooldown and popped the second
C11_Witness ==
    \E c \in Convs :
        /\ Len(startLog[c]) = 2
        /\ startLog[c][2].afterCooldown
        /\ InFlight(c) # {}
        /\ nextId = 1
        /\ pendingSaves[c] = 0
        /\ stateThread[c] = "none"

\* what the task in hand of c awaits comes to an end: toAsk answers or
\* rejects, flowDynamic returns or rejects, the pacing wait is over
AwaitEnds(c) ==
    \E i \in 1..Len(drains[c]) :
        \/ \E k \in 0..MaxChunks : AskOk(c, i, k)
        \/ TaskThrows(c, i)
        \/ \E withKey \in BOOLEAN : SendReturns(c, i, withKey)
        \/ PacingDone(c, i)

\* the timers fire and every call of the backend and of the transport
\* terminates
SpecAnswers ==
    /\ SpecTimers
    /\ \A c \in Convs : WF_vars(AwaitEnds(c))

\* C33: when every awaited call terminates, every task pushed onto the
\* queue of a conversation is popped later on, whether the lock was free
\* when it was pushed (the callback calls handleQueue) or held (the
\* invocation that holds it comes back to its loop test).
C33_EveryTaskPopped ==
    \A c \in Convs : \A n \in 0..(MaxInputs - 1) :
        (Len(flushLog[c]) > n) ~> (Len(startLog[c]) > n)

\* the first task was popped by the invocation its flush started, the
\* second by an invocation that came back from its cooldown
C33_Witness ==
    \E c \in Convs :
        /\ Len(startLog[c]) >= 2
        /\ ~startLog[c][1].afterCooldown
        /\ startLog[c][2].afterCooldown

\* c has a thread binding under some form of its address
Bound(c) == \E k \in Keys : k[2] = c /\ clientThreadIds[k] # "none"

\* a chunk of the response to c's task has been handed to flowDynamic
Emitting(c) ==
    \E i \in 1..Len(drains[c]) : drains[c][i].pc \in {"sending", "pacing"}

\* C16: once the first chunk of a response has been handed to the
\* transport, the conversation has its thread binding.
C16_BindingBeforeEmission ==
    \A c \in Convs : Emitting(c) => Bound(c)

\* the keys under which c has a thread binding
BindingsOf(c) == {k \in Keys : k[2] = c /\ clientThreadIds[k] # "none"}

Quiescent(c) ==
    /\ drains[c] = <<>>
    /\ userLocks[c] # "true"
    /\ QueueOf(c) = <<>>

\* app.ts keeps C18: a quiescent conversation has no entry in userQueues
\* and none in userLocks (handleQueue deletes both after its loop).
AppQuiescentHasNoEntries ==
    \A c \in Convs :
        Quiescent(c) => userQueues[c] = 0 /\ userLocks[c] = "absent"

\* a conversation whose two tasks have been processed is quiescent again
AppQuiescentAgain ==
    \E c \in Convs : Quiescent(c) /\ Len(startLog[c]) = 2

(* ------------------------ the response emitter ------------------------ *)
EmitChunks == 2     \* paragraphs of one assistant response, SpecEmit

\* the aggregator, the dispatcher and the chunk loop of processUserMessage
\* with responses of up to EmitChunks paragraphs
NextEmit ==
    \/ \E c \in Convs : MainFlow(c)
    \/ \E c \in Convs : Flush(c)
    \/ \E c \in Convs : \E i \in 1..Len(drains[c]) :
           \E k \in 0..EmitChunks : AskOk(c, i, k)
    \/ \E c \in Convs : \E i \in 1..Len(drains[c]) : TaskThrows(c, i)
    \/ \E c \in Convs : \E i \in 1..Len(drains[c]) :
           \E withKey \in BOOLEAN : SendReturns(c, i, withKey)
    \/ \E c \in Convs : \E i \in 1..Len(drains[c]) : PacingDone(c, i)
    \/ \E c \in Convs : \E i \in 1..Len(drains[c]) : CooldownWake(c, i)
    \/ \E e \in feed : DeliverEcho(e)
    \/ \E id \in botSentMessages : Expire(id)
    \/ Tick

SpecEmit == Init /\ [][NextEmit]_vars

\* C19: while chunks of a response remain to be sent, no step ends the
\* emission: after the send of a chunk, successful or not, the emitter is
\* still at work on that response.
C19_SendFailureNotFatal ==
    [][\A c \in Convs : \A i \in 1..Len(drains[c]) :
          (drains[c][i].pc = "sending" /\ drains[c][i].left > 0)
              => Emitting(c)']_vars

\* C15: with the timers firing and no promise about the backend, a lock
\* that is held is released later on: the call of the task in flight
\* ends even if the backend never answers.
C15_CallEndsLockReleased ==
    \A c \in Convs : (userLocks[c] = "true") ~> (userLocks[c] # "true")

(* ================ getAssistantResponse (part_002:146) ================= *)
MAX_RETRIES == 3
CACHE_LIMIT == 100          \* responseCache.size > 100
CACHEABLE_MESSAGE == 100    \* message.length < 100
CACHEABLE_RESPONSE == 1000  \* response.length < 1000
ASSISTANT_ID == "asst"

MaxCalls == 3       \* calls of getAssistantResponse in one behaviour

X10 == "xxxxxxxxxx"
X100 == X10 \o X10 \o X10 \o X10 \o X10 \o X10 \o X10 \o X10 \o X10 \o X10
X1000 == X100 \o X100 \o X100 \o X100 \o X100 \o X100 \o X100 \o X100
              \o X100 \o X100
\* message texts: two short ones and one of 100 characters
Messages == {"hola", "info", X100}
\* response texts: two short ones and one of 1000 characters
Responses == {"r1", "r2", X1000}
\* what an attempt can fail with: the backend's concurrency conflict, the
\* API_TIMEOUT race, any other rejection, a result that is no string
Failures == {"run_active", "timeout", "other", "not_string"}

RECURSIVE Pow2(_)
Pow2(n) == IF n = 0 THEN 1 ELSE 2 * Pow2(n - 1)

\* mutant: a fixed delay between attempts
BackoffDelay_fixed(n) == 1000

\* Math.pow(2, attempt) * 1000
BackoffDelay(n) == Pow2(n) * 1000

\* attempt < MAX_RETRIES (part_002:177) and the loop test attempt <= MAX_RETRIES
RetriesLeft(n) == n < MAX_RETRIES

CacheKey(message) == ASSISTANT_ID \o "-" \o message

CacheHas(cache, key) == \E i \in 1..Len(cache) : cache[i].key = key
CacheGet(cache, key) ==
    cache[CHOOSE i \in 1..Len(cache) : cache[i].key = key].response

\* responseCache.set(key, response), then the eviction of the oldest entry
CacheSet(cache, key, response) ==
    LET set == IF CacheHas(cache, key)
               THEN [i \in 1..Len(cache) |->
                        IF cache[i].key = key
                        THEN [key |-> key, response |-> response]
                        ELSE cache[i]]
               ELSE Append(cache, [key |-> key, response |-> response])
    IN IF Len(set) > CACHE_LIMIT THEN Tail(set) ELSE set

\* getAssistantResponse(assistantId, message, state) is called: a cached
\* answer is returned at once, otherwise the first attempt calls toAsk
GetAssistantResponse(message) ==
    /\ rpc \in {"idle", "returned", "thrown"}
    /\ calls < MaxCalls
    /\ calls' = calls + 1
    /\ rmsg' = message
    /\ waits' = <<>>
    /\ lastError' = "none"
    /\ IF CacheHas(responseCache, CacheKey(message))
       THEN /\ rpc' = "returned"
            /\ rresult' = CacheGet(responseCache, CacheKey(message))
            /\ attempt' = 0
       ELSE /\ rpc' = "racing"
            /\ rresult' = ""
            /\ attempt' = 1
    /\ UNCHANGED responseCache
    /\ UNCHANGED <<appVars, histVars, welcomeVars, splitVars, processVars,
                   queueVars, flowVars, listenVars, ownVars, noteVars,
                   handlerVars, cacheVars>>

\* Promise.race resolves with the string of toAsk
AttemptOk(response) ==
    /\ rpc = "racing"
    /\ responseCache' =
           IF Len(rmsg) < CACHEABLE_MESSAGE /\ Len(response) < CACHEABLE_RESPONSE
           THEN CacheSet(responseCache, CacheKey(rmsg), response)
           ELSE responseCache
    /\ rresult' = response
    /\ rpc' = "returned"
    /\ UNCHANGED <<attempt, rmsg, lastError, waits, calls>>
    /\ UNCHANGED <<appVars, histVars, welcomeVars, splitVars, processVars,
                   queueVars, flowVars, listenVars, ownVars, noteVars,
                   handlerVars, cacheVars>>

\* the attempt fails: remember the error; wait and retry, or leave the
\* loop and throw
AttemptFail(failure) ==
    /\ rpc = "racing"
    /\ lastError' = failure
    /\ IF RetriesLeft(attempt)
       THEN /\ waits' = Append(waits, BackoffDelay(attempt))
            /\ rpc' = "backoff"
       ELSE /\ rpc' = "thrown"
            /\ UNCHANGED waits
    /\ UNCHANGED <<attempt, rmsg, responseCache, calls, rresult>>
    /\ UNCHANGED <<appVars, histVars, welcomeVars, splitVars, processVars,
                   queueVars, flowVars, listenVars, ownVars, noteVars,
                   handlerVars, cacheVars>>

\* the backoff wait is over: attempt++ and toAsk is called again
BackoffDone ==
    /\ rpc = "backoff"
    /\ attempt' = attempt + 1
    /\ rpc' = "racing"
    /\ UNCHANGED <<rmsg, lastError, responseCache, waits, calls, rresult>>
    /\ UNCHANGED <<appVars, histVars, welcomeVars, splitVars, processVars,
                   queueVars, flowVars, listenVars, ownVars, noteVars,
                   handlerVars, cacheVars>>

NextRetry ==
    \/ \E message \in Messages : GetAssistantResponse(message)
    \/ \E response \in Responses : AttemptOk(response)
    \/ \E failure \in Failures : AttemptFail(failure)
    \/ BackoffDone

SpecRetry == Init /\ [][NextRetry]_vars

\* C10: a call of getAssistantResponse makes at most 3 attempts, and the
\* waits between attempts are 2 s then 4 s, each longer than the one before;
\* a call that fails has made all three attempts.
C10_RetriesCappedBackoffGrows ==
    /\ attempt <= 3
    /\ Len(waits) <= 2
    /\ \A i \in 1..Len(waits) :
           /\ waits[i] = <<2000, 4000>>[i]
           /\ i > 1 => waits[i] > waits[i - 1]
    /\ rpc \in {"racing", "backoff"} => Len(waits) = attempt - 1
                                        + (IF rpc = "backoff" THEN 1 ELSE 0)
    /\ rpc = "thrown" => attempt = 3 /\ Len(waits) = 2

\* a call gave up after three attempts, the last failing on a run still
\* active
C10_Witness ==
    /\ rpc = "thrown"
    /\ lastError = "run_active"
    /\ attempt = 3
    /\ waits = <<2000, 4000>>

\* C12: a failure that is neither the concurrency conflict nor the timeout
\* ends the call: after it the backend is not asked again for the same
\* message, neither at once nor after a backoff wait.
C12_NonRetryableSingleAttempt ==
    lastError \in {"other", "not_string"} => rpc \notin {"backoff", "racing"}

(* ------------------------ a conversation backlog ---------------------- *)
MAX_QUEUE_SIZE == 10

BacklogInputs == 3   \* inputs that still arrive once the backlog stands

\* the n-th of the bursts a counterpart sent before: one message each
Earlier(n) == [body |-> "b" \o ToString(n), ctx |-> 0 - n]

\* The state of app.ts after MAX_QUEUE_SIZE + 1 bursts of one message each
\* of c1, the backend not having answered the first of them yet: the first
\* task is in flight under the lock, the others are queued; the count of
\* inputs leaves room for BacklogInputs more.
BacklogInit ==
    /\ senders = {"c1"}
    /\ fromForm \in Forms
    /\ userMessageBuffers = [c \in Convs |-> NoBuffer]
    /\ userActivityTimers = [c \in Convs |-> NoTimer]
    /\ userQueues = [c \in Convs |-> IF c = "c1" THEN 1 ELSE 0]
    /\ heap = <<[n \in 1..MAX_QUEUE_SIZE |-> Earlier(n + 1)]>>
    /\ userLocks = [c \in Convs |-> IF c = "c1" THEN "true" ELSE "absent"]
    /\ drains = [c \in Convs |->
           IF c = "c1"
           THEN <<[NoDrain EXCEPT !.q = 1, !.pc = "asking",
                                  !.task = Earlier(1)]>>
           ELSE <<>>]
    /\ clientThreadIds = [k \in Keys |-> "none"]
    /\ stateThread = [c \in Convs |-> "none"]
    /\ pendingSaves = [c \in Convs |-> 0]
    /\ botSentMessages = {}
    /\ feed = {}
    /\ syncs = {}
    /\ threadLog = [c \in Convs |-> <<>>]
    /\ nextBuf = MAX_QUEUE_SIZE + 2 /\ nextId = 1 /\ nOps = 0
    /\ nMsgs = MaxInputs - BacklogInputs
    /\ arrivals = [c \in Convs |->
           IF c = "c1"
           THEN [n \in 1..(MAX_QUEUE_SIZE + 1) |->
                    [body |-> Earlier(n).body, ctx |-> Earlier(n).ctx,
                     newBurst |-> TRUE]]
           ELSE <<>>]
    /\ flushLog = [c \in Convs |->
           IF c = "c1"
           THEN [n \in 1..(MAX_QUEUE_SIZE + 1) |->
                    [text |-> Earlier(n).body, n |-> 1, buf |-> n,
                     ctx |-> Earlier(n).ctx]]
           ELSE <<>>]
    /\ startLog = [c \in Convs |->
           IF c = "c1"
           THEN <<[ctx |-> Earlier(1).ctx, body |-> Earlier(1).body,
                   afterCooldown |-> FALSE, early |-> FALSE]>>
           ELSE <<>>]
    /\ cool = [c \in Convs |-> 0]
    /\ lastHandled = NoHandled

\* what happens while the backend call of the task in flight is pending:
\* messages arrive, debounce timers fire, the operator writes
NextBacklog ==
    \/ \E c \in Convs : MainFlow(c)
    \/ \E c \in Convs : Flush(c)
    \/ \E c \in Convs : OperatorMessage(c)
    \/ Tick

BacklogStart == BacklogInit /\ RetryIdle

SpecBacklog == BacklogStart /\ [][NextBacklog]_vars

\* C13: no queue holds more than MAX_QUEUE_SIZE tasks.
C13_QueueBounded ==
    \A q \in 1..Len(heap) : Len(heap[q]) <= MAX_QUEUE_SIZE

(* ------------------------- two conversations -------------------------- *)
\* Both counterparts write to the bot. The handlers of the aggregator and
\* of the dispatcher are the ones that touch the four conversation maps;
\* the thread-save callback and the correlator touch none of them.
PairInit == senders = Convs /\ AppStart

NextPair ==
    \/ \E c \in Convs : MainFlow(c)
    \/ \E c \in Convs : Flush(c)
    \/ \E c \in Convs : \E i \in 1..Len(drains[c]) :
           \E k \in 0..MaxChunks : AskOk(c, i, k)
    \/ \E c \in Convs : \E i \in 1..Len(drains[c]) : TaskThrows(c, i)
    \/ \E c \in Convs : \E i \in 1..Len(drains[c]) :
           \E withKey \in BOOLEAN : SendReturns(c, i, withKey)
    \/ \E c \in Convs : \E i \in 1..Len(drains[c]) : PacingDone(c, i)
    \/ \E c \in Convs : \E i \in 1..Len(drains[c]) : CooldownWake(c, i)
    \/ Tick

PairStart == PairInit /\ RetryIdle

SpecPair == PairStart /\ [][NextPair]_vars

\* buffer, timer, queue and lock of c, with the invocations of handleQueue
\* that serve it
Pipeline(c) ==
    <<userMessageBuffers[c], userActivityTimers[c], userQueues[c],
      QueueOf(c), userLocks[c], drains[c]>>

\* the handlers of c that are due: its debounce callback, the wake-up of a
\* sleeping invocation, the end of its task in flight
Due(c) ==
    (IF userActivityTimers[c] = 0 THEN {"flush"} ELSE {})
    \cup (IF \E i \in Sleeping(c) : drains[c][i].timer = 0
          THEN {"wake"} ELSE {})
    \cup (IF InFlight(c) # {} THEN {"end"} ELSE {})

\* time passes: the step changes nothing but the running timers
TimePasses ==
    /\ userActivityTimers' # userActivityTimers \/ drains' # drains \/ cool' # cool
    /\ UNCHANGED <<userMessageBuffers, userQueues, heap, userLocks, nMsgs,
                   nextId, flushLog, startLog>>
    /\ \A c \in Convs : Len(drains'[c]) = Len(drains[c])
    /\ \A c \in Convs : \A i \in 1..Len(drains[c]) :
           drains'[c][i] = [drains[c][i] EXCEPT !.timer = drains'[c][i].timer]

\* C14: every step other than the passing of time is a step of one
\* conversation: it leaves buffer, timer, queue and lock of every other
\* conversation as they were, and their due handlers stay due.
C14_OtherConversationsUntouched ==
    [][~TimePasses =>
          \E c \in Convs : \A o \in Convs \ {c} :
              /\ Pipeline(o)' = Pipeline(o)
              /\ Due(o) \subseteq Due(o)']_vars

\* both conversations are busy: one has a task in flight under its lock,
\* the other one a task in flight too and a further task queued
C14_Witness ==
    /\ InFlight("c1") # {} /\ InFlight("c2") # {}
    /\ userLocks["c1"] = "true" /\ userLocks["c2"] = "true"
    /\ \E c \in Convs : Len(QueueOf(c)) > 0

(* ============ welcomeFlow and handleQueue of part_002 ================== *)
MaxWelcomeMsgs == 12    \* inbound messages in one behaviour

\* the while loop of handleQueue (part_002:239-250) from its test to the
\* call of processUserMessage, or to userLocks.delete after the loop
WelcomeLoop(tasks) ==
    IF Len(tasks) > 0
    THEN [tasks |-> Tail(tasks), lock |-> "true", drain |-> "processing"]
    ELSE [tasks |-> tasks, lock |-> "absent", drain |-> "none"]

\* queue.length >= MAX_QUEUE_SIZE
QueueFull(tasks) == Len(tasks) >= MAX_QUEUE_SIZE

\* welcomeFlow addAction: create the queue entry, reject the message with
\* the notice when the queue is full, else push it and call handleQueue
\* unless the lock is held
WelcomeFlow(c) ==
    /\ wMsgs < MaxWelcomeMsgs
    /\ c \in senders
    /\ wMsgs' = wMsgs + 1
    /\ LET tasks == wQueues[c].tasks
       IN IF QueueFull(tasks)
          THEN /\ wNotices' = [wNotices EXCEPT ![c] = @ + 1]
               /\ wQueues' = [wQueues EXCEPT ![c].present = TRUE]
               /\ UNCHANGED <<wLocks, wDrain>>
          ELSE LET pushed == Append(tasks, wMsgs + 1)
                   R == IF wLocks[c] # "true" THEN WelcomeLoop(pushed)
                        ELSE [tasks |-> pushed, lock |-> wLocks[c],
                              drain |-> wDrain[c]]
               IN /\ wQueues' = [wQueues EXCEPT ![c] =
                         [present |-> TRUE, tasks |-> R.tasks]]
                  /\ wLocks' = [wLocks EXCEPT ![c] = R.lock]
                  /\ wDrain' = [wDrain EXCEPT ![c] = R.drain]
                  /\ UNCHANGED wNotices
    /\ UNCHANGED <<appVars, histVars, retryVars, splitVars, processVars,
                   queueVars, flowVars, listenVars, ownVars, noteVars,
                   handlerVars, cacheVars>>

\* processUserMessage returns or throws (the catch of handleQueue only
\* logs): wait 500 ms when tasks are queued, else leave the loop
WelcomeTaskEnds(c, threw) ==
    /\ wDrain[c] = "processing"
    /\ IF Len(wQueues[c].tasks) > 0
       THEN /\ wDrain' = [wDrain EXCEPT ![c] = "waiting"]
            /\ UNCHANGED <<wQueues, wLocks>>
       ELSE LET R == WelcomeLoop(wQueues[c].tasks)
            IN /\ wQueues' = [wQueues EXCEPT ![c].tasks = R.tasks]
               /\ wLocks' = [wLocks EXCEPT ![c] = R.lock]
               /\ wDrain' = [wDrain EXCEPT ![c] = R.drain]
    /\ UNCHANGED <<wNotices, wMsgs>>
    /\ UNCHANGED <<appVars, histVars, retryVars, splitVars, processVars,
                   queueVars, flowVars, listenVars, ownVars, noteVars,
                   handlerVars, cacheVars>>

\* the 500 ms wait between two tasks is over
WelcomeWaitDone(c) ==
    /\ wDrain[c] = "waiting"
    /\ LET R == WelcomeLoop(wQueues[c].tasks)
       IN /\ wQueues' = [wQueues EXCEPT ![c].tasks = R.tasks]
          /\ wLocks' = [wLocks EXCEPT ![c] = R.lock]
          /\ wDrain' = [wDrain EXCEPT ![c] = R.drain]
    /\ UNCHANGED <<wNotices, wMsgs>>
    /\ UNCHANGED <<appVars, histVars, retryVars, splitVars, processVars,
                   queueVars, flowVars, listenVars, ownVars, noteVars,
                   handlerVars, cacheVars>>

NextWelcome ==
    \/ \E c \in Convs : WelcomeFlow(c)
    \/ \E c \in Convs : \E threw \in BOOLEAN : WelcomeTaskEnds(c, threw)
    \/ \E c \in Convs : WelcomeWaitDone(c)

SpecWelcome == Init /\ [][NextWelcome]_vars

\* processUserMessage of part_002 terminates and the 500 ms wait ends
SpecWelcomeAnswers ==
    /\ SpecWelcome
    /\ \A c \in Convs :
           WF_vars(\E threw \in BOOLEAN : WelcomeTaskEnds(c, threw))
    /\ \A c \in Convs : WF_vars(WelcomeWaitDone(c))

\* part_002 keeps C33: a task welcomeFlow pushed is shifted later on, by
\* the handleQueue call welcomeFlow made or by the one that holds the lock
WelcomeEveryTaskPopped ==
    \A c \in Convs : \A n \in 1..MaxWelcomeMsgs :
        (\E j \in 1..Len(wQueues[c].tasks) : wQueues[c].tasks[j] = n)
            ~> (\A j \in 1..Len(wQueues[c].tasks) : wQueues[c].tasks[j] # n)

\* C18: a conversation with no handleQueue call alive, no lock held and no
\* task queued has no entry in userQueues and none in userLocks.
C18_WelcomeQuiescentHasNoEntries ==
    \A c \in Convs :
        (wDrain[c] = "none" /\ wLocks[c] # "true" /\ wQueues[c].tasks = <<>>)
            => (~wQueues[c].present /\ wLocks[c] = "absent")


(* ---------------- splitIntoHumanChunks (part_002:90-136) --------------- *)
\* A text is the sequence of its characters.  Open and Close stand for the
\* two brackets of CLEAN_REGEX (U+3010, U+3011).
MAX_LINES_PER_MESSAGE == 4
MAX_MESSAGE_LENGTH == 250
CHARS_PER_LINE_ESTIMATE == 60

Open == "[["
Close == "]]"
NewLine == "\n"

\* \s of the regular expressions and the characters String.trim removes
Spaces == {" ", NewLine, "\r", "\t"}
\* [.!?]
Terminators == {".", "!", "?"}
\* ["']
Quotes == {"\"", "'"}
\* [\n\r]
LineBreaks == {NewLine, "\r"}

Least(S) == CHOOSE x \in S : \A y \in S : x <= y

\* the first position from i on whose character is not one of chars
\* (Len(s) + 1 when there is none): the end of a greedy [chars]* started
\* at i
SkipWhile(s, i, chars) ==
    CHOOSE j \in i..(Len(s) + 1) :
        /\ j = Len(s) + 1 \/ s[j] \notin chars
        /\ \A k \in i..(j - 1) : s[k] \in chars

\* String.prototype.trim
Trim(s) ==
    LET first == SkipWhile(s, 1, Spaces)
        cut == CHOOSE k \in 0..Len(s) :
                   /\ k = Len(s) \/ s[Len(s) - k] \notin Spaces
                   /\ \A m \in 0..(k - 1) : s[Len(s) - m] \in Spaces
    IN IF first > Len(s) THEN <<>> ELSE SubSeq(s, first, Len(s) - cut)

\* replace(CLEAN_REGEX, "") from position i on: every bracketed annotation
\* that closes on its line is removed together with one following space
RECURSIVE Clean(_, _)
Clean(s, i) ==
    LET opens == {j \in i..Len(s) : s[j] = Open}
    IN IF opens = {} THEN SubSeq(s, i, Len(s))
       ELSE LET o == Least(opens)
                closes == {j \in (o + 1)..Len(s) : s[j] = Close}
                c == Least(closes)
                matches == /\ closes # {}
                           /\ \A k \in (o + 1)..(c - 1) : s[k] \notin LineBreaks
                after == IF c + 1 <= Len(s) /\ s[c + 1] = " "
                         THEN c + 2 ELSE c + 1
            IN IF matches
               THEN SubSeq(s, i, o - 1) \o Clean(s, after)
               ELSE SubSeq(s, i, o) \o Clean(s, o + 1)

\* split(/[\n\r]{2,}/) from position i on
RECURSIVE SplitParagraphs(_, _)
SplitParagraphs(s, i) ==
    LET breaks == {j \in i..(Len(s) - 1) :
                       s[j] \in LineBreaks /\ s[j + 1] \in LineBreaks}
    IN IF breaks = {} THEN <<SubSeq(s, i, Len(s))>>
       ELSE LET b == Least(breaks)
            IN <<SubSeq(s, i, b - 1)>>
                   \o SplitParagraphs(s, SkipWhile(s, b, LineBreaks))

\* the matches of /[^.!?]+(?:[.!?]+["']?\s*|$)/g from position i on
RECURSIVE MatchSentences(_, _)
MatchSentences(p, i) ==
    LET start == SkipWhile(p, i, Terminators)
        terms == {j \in start..Len(p) : p[j] \in Terminators}
    IN IF start > Len(p) THEN <<>>
       ELSE IF terms = {} THEN <<SubSeq(p, start, Len(p))>>
       ELSE LET t == SkipWhile(p, Least(terms), Terminators)
                q == IF t <= Len(p) /\ p[t] \in Quotes THEN t + 1 ELSE t
                e == SkipWhile(p, q, Spaces)
            IN <<SubSeq(p, start, e - 1)>> \o MatchSentences(p, e)

\* Math.ceil(length / CHARS_PER_LINE_ESTIMATE)
EstimatedLines(length) ==
    (length + CHARS_PER_LINE_ESTIMATE - 1) \div CHARS_PER_LINE_ESTIMATE

\* length <= MAX_MESSAGE_LENGTH && estimatedLines <= MAX_LINES_PER_MESSAGE
WithinLimits(s) ==
    /\ Len(s) <= MAX_MESSAGE_LENGTH
    /\ EstimatedLines(Len(s)) <= MAX_LINES_PER_MESSAGE

\* the loop over the sentences of one paragraph from the k-th on, and the
\* push of what is left in currentChunk after it
RECURSIVE SentenceLoop(_, _, _, _)
SentenceLoop(sentences, k, chunks, currentChunk) ==
    IF k > Len(sentences)
    THEN IF currentChunk # <<>> THEN Append(chunks, currentChunk) ELSE chunks
    ELSE LET sentence == Trim(sentences[k])
             potentialChunk == currentChunk \o <<" ">> \o sentence
         IN IF sentence = <<>>
            THEN SentenceLoop(sentences, k + 1, chunks, currentChunk)
            ELSE IF currentChunk = <<>>
            THEN IF ~WithinLimits(sentence)
                 THEN SentenceLoop(sentences, k + 1,
                                   Append(chunks, sentence), <<>>)
                 ELSE SentenceLoop(sentences, k + 1, chunks, sentence)
            ELSE IF WithinLimits(potentialChunk)
            THEN SentenceLoop(sentences, k + 1, chunks, potentialChunk)
            ELSE IF ~WithinLimits(sentence)
            THEN SentenceLoop(sentences, k + 1,
                              chunks \o <<currentChunk, sentence>>, <<>>)
            ELSE SentenceLoop(sentences, k + 1,
                              Append(chunks, currentChunk), sentence)

\* the body of the loop over majorParagraphs
RECURSIVE ParagraphLoop(_, _, _)
ParagraphLoop(majorParagraphs, k, chunks) ==
    IF k > Len(majorParagraphs) THEN chunks
    ELSE LET paragraphContent == Trim(majorParagraphs[k])
             matched == MatchSentences(paragraphContent, 1)
             sentences == IF matched = <<>> THEN <<paragraphContent>>
                          ELSE matched
         IN IF paragraphContent = <<>>
            THEN ParagraphLoop(majorParagraphs, k + 1, chunks)
            ELSE IF WithinLimits(paragraphContent)
            THEN ParagraphLoop(majorParagraphs, k + 1,
                               Append(chunks, paragraphContent))
            ELSE ParagraphLoop(majorParagraphs, k + 1,
                               SentenceLoop(sentences, 1, chunks, <<>>))

splitIntoHumanChunks(text) ==
    LET cleaned == Clean(Trim(text), 1)
        chunks == IF cleaned = <<>> THEN <<>>
                  ELSE ParagraphLoop(SplitParagraphs(cleaned, 1), 1, <<>>)
    IN SelectSeq(chunks, LAMBDA chunk : Len(chunk) > 0)

\* ----- the texts splitIntoHumanChunks is applied to -----
MaxSentences == 2    \* sentences of one paragraph
MaxParagraphs == 2   \* paragraphs of one text
\* lengths of a sentence: short, half a message, within MAX_MESSAGE_LENGTH
\* but over the estimated lines, and the 900 characters of the spec
SentenceLens == {30, 120, 245, 900}

Rep(ch, n) == [i \in 1..n |-> ch]

\* a paragraph of the sentences of the given lengths, each closed by "."
\* and separated by one space
RECURSIVE ParagraphOf(_)
ParagraphOf(lens) ==
    IF lens = <<>> THEN <<>>
    ELSE Rep("a", Head(lens)) \o <<".">>
             \o (IF Len(lens) > 1 THEN <<" ">> ELSE <<>>)
             \o ParagraphOf(Tail(lens))

\* paragraphs of 1..MaxSentences closed sentences, and paragraphs that are
\* one run of letters with no sentence boundary at all
Paragraphs ==
    {ParagraphOf(lens) :
        lens \in UNION {[1..n -> SentenceLens] : n \in 1..MaxSentences}}
    \cup {Rep("a", n) : n \in SentenceLens}

\* paragraphs separated by a blank line
RECURSIVE TextOf(_)
TextOf(ps) ==
    IF Len(ps) = 1 THEN ps[1]
    ELSE ps[1] \o <<NewLine, NewLine>> \o TextOf(Tail(ps))

Texts ==
    {TextOf(ps) : ps \in UNION {[1..n -> Paragraphs] : n \in 1..MaxParagraphs}}

SplitInit ==
    /\ AppInit /\ RetryStart /\ WelcomeStart /\ ProcessStart /\ QueueStart
        /\ FlowStart /\ ListenStart /\ OwnStart /\ NoteStart /\ HandlerStart
        /\ CacheStart
    /\ splitText \in Texts /\ splitChunks = <<>> /\ splitDone = FALSE

\* one call of splitIntoHumanChunks
SplitCall ==
    /\ ~splitDone
    /\ splitChunks' = splitIntoHumanChunks(splitText)
    /\ splitDone' = TRUE
    /\ UNCHANGED splitText
    /\ UNCHANGED <<appVars, histVars, retryVars, welcomeVars, processVars,
                   queueVars, flowVars, listenVars, ownVars, noteVars,
                   handlerVars, cacheVars>>

NextSplit == SplitCall

SpecSplit == SplitInit /\ [][NextSplit]_vars

\* C20: every chunk returned by splitIntoHumanChunks has at most
\* MAX_MESSAGE_LENGTH characters and at most MAX_LINES_PER_MESSAGE estimated
\* lines, whatever the text, a paragraph with no sentence boundary included.
C20_EveryChunkWithinBudget ==
    splitDone =>
        \A i \in 1..Len(splitChunks) :
            /\ Len(splitChunks[i]) <= MAX_MESSAGE_LENGTH
            /\ Len(splitChunks[i])
                   <= MAX_LINES_PER_MESSAGE * CHARS_PER_LINE_ESTIMATE


(* ============== processUserMessage (app.ts:139-210) alone ============== *)
MaxResponses == 3   \* calls of processUserMessage in one behaviour
ProcessChunks == 2  \* non-empty paragraphs of one response

\* the guard of typing (app.ts:129): the Baileys socket provider.vendor has
\* sendPresenceUpdate and every inbound message has key.remoteJid
PresenceAvailable == TRUE

\* mutant: typing does not call sendPresenceUpdate
Typing_silent(log) == log

\* typing (app.ts:127-136): sendPresenceUpdate('composing', remoteJid)
Typing(log) ==
    IF PresenceAvailable THEN Append(log, [kind |-> "composing", chunk |-> 0])
    ELSE log

\* flowDynamic([{ body: cleanedChunk }]) is called for the n-th chunk
HandOver(log, n) == Append(log, [kind |-> "send", chunk |-> n])

\* processUserMessage is called (by handleQueue, which runs one call per
\* conversation at a time) and awaits state.get
ProcessCall(c) ==
    /\ pumCalls < MaxResponses
    /\ pum[c].pc = "idle"
    /\ pumCalls' = pumCalls + 1
    /\ pum' = [pum EXCEPT ![c] = [pc |-> "state_get", left |-> 0, cur |-> 0]]
    /\ wire' = [wire EXCEPT ![c] = <<>>]
    /\ UNCHANGED <<appVars, histVars, retryVars, welcomeVars, splitVars,
                   queueVars, flowVars, listenVars, ownVars, noteVars,
                   handlerVars, cacheVars>>

\* state.get('esperando_respuesta_encargado') resolves: either the note
\* branch is entered (await state.get of the topic) or typing is called
StateGot(c, esperandoEncargado) ==
    /\ pum[c].pc = "state_get"
    /\ IF esperandoEncargado
       THEN /\ pum' = [pum EXCEPT ![c].pc = "tema_get"]
            /\ UNCHANGED wire
       ELSE /\ pum' = [pum EXCEPT ![c].pc = "typing"]
            /\ wire' = [wire EXCEPT ![c] = Typing(@)]
    /\ UNCHANGED pumCalls
    /\ UNCHANGED <<appVars, histVars, retryVars, welcomeVars, splitVars,
                   queueVars, flowVars, listenVars, ownVars, noteVars,
                   handlerVars, cacheVars>>

\* state.get('tema_consulta_encargado') resolves: await state.update
TemaGot(c) ==
    /\ pum[c].pc = "tema_get"
    /\ pum' = [pum EXCEPT ![c].pc = "note_update"]
    /\ UNCHANGED <<wire, pumCalls>>
    /\ UNCHANGED <<appVars, histVars, retryVars, welcomeVars, splitVars,
                   queueVars, flowVars, listenVars, ownVars, noteVars,
                   handlerVars, cacheVars>>

\* state.update of the note branch resolves: typing is called
NoteUpdated(c) ==
    /\ pum[c].pc = "note_update"
    /\ pum' = [pum EXCEPT ![c].pc = "typing"]
    /\ wire' = [wire EXCEPT ![c] = Typing(@)]
    /\ UNCHANGED pumCalls
    /\ UNCHANGED <<appVars, histVars, retryVars, welcomeVars, splitVars,
                   queueVars, flowVars, listenVars, ownVars, noteVars,
                   handlerVars, cacheVars>>

\* sendPresenceUpdate resolves or rejects (typing catches the rejection):
\* toAsk is called
TypingDone(c, ok) ==
    /\ pum[c].pc = "typing"
    /\ pum' = [pum EXCEPT ![c].pc = "asking"]
    /\ UNCHANGED <<wire, pumCalls>>
    /\ UNCHANGED <<appVars, histVars, retryVars, welcomeVars, splitVars,
                   queueVars, flowVars, listenVars, ownVars, noteVars,
                   handlerVars, cacheVars>>

\* toAsk resolves with k non-empty paragraphs: the first is handed to
\* flowDynamic, or the function returns when there is none
AskReturns(c, k) ==
    /\ pum[c].pc = "asking"
    /\ IF k = 0
       THEN /\ pum' = [pum EXCEPT ![c].pc = "idle"]
            /\ UNCHANGED wire
       ELSE /\ pum' = [pum EXCEPT ![c] =
                   [pc |-> "sending", left |-> k - 1, cur |-> 1]]
            /\ wire' = [wire EXCEPT ![c] = HandOver(@, 1)]
    /\ UNCHANGED pumCalls
    /\ UNCHANGED <<appVars, histVars, retryVars, welcomeVars, splitVars,
                   queueVars, flowVars, listenVars, ownVars, noteVars,
                   handlerVars, cacheVars>>

\* flowDynamic resolves: the identifier is recorded, and either the chunk
\* announces the hand-over to the person in charge (await state.update) or
\* the pacing delay starts
FlowReturns(c, escalates) ==
    /\ pum[c].pc = "sending"
    /\ wire' = [wire EXCEPT ![c] =
           Append(@, [kind |-> "returned", chunk |-> pum[c].cur])]
    /\ pum' = [pum EXCEPT ![c].pc =
           IF escalates THEN "escalating" ELSE "pacing"]
    /\ UNCHANGED pumCalls
    /\ UNCHANGED <<appVars, histVars, retryVars, welcomeVars, splitVars,
                   queueVars, flowVars, listenVars, ownVars, noteVars,
                   handlerVars, cacheVars>>

\* state.update of the hand-over resolves: the pacing delay starts
EscalationSaved(c) ==
    /\ pum[c].pc = "escalating"
    /\ pum' = [pum EXCEPT ![c].pc = "pacing"]
    /\ UNCHANGED <<wire, pumCalls>>
    /\ UNCHANGED <<appVars, histVars, retryVars, welcomeVars, splitVars,
                   queueVars, flowVars, listenVars, ownVars, noteVars,
                   handlerVars, cacheVars>>

\* the CHUNK_DELAY_MS timer fires: the next chunk is handed to flowDynamic,
\* or the function returns
PacingOver(c) ==
    /\ pum[c].pc = "pacing"
    /\ IF pum[c].left > 0
       THEN /\ pum' = [pum EXCEPT ![c] =
                   [pc |-> "sending", left |-> @.left - 1, cur |-> @.cur + 1]]
            /\ wire' = [wire EXCEPT ![c] = HandOver(@, pum[c].cur + 1)]
       ELSE /\ pum' = [pum EXCEPT ![c].pc = "idle"]
            /\ UNCHANGED wire
    /\ UNCHANGED pumCalls
    /\ UNCHANGED <<appVars, histVars, retryVars, welcomeVars, splitVars,
                   queueVars, flowVars, listenVars, ownVars, noteVars,
                   handlerVars, cacheVars>>

\* an awaited promise other than that of typing rejects: the function throws
ProcessThrows(c) ==
    /\ pum[c].pc \in {"state_get", "tema_get", "note_update", "asking",
                      "sending", "escalating"}
    /\ pum' = [pum EXCEPT ![c].pc = "idle"]
    /\ UNCHANGED <<wire, pumCalls>>
    /\ UNCHANGED <<appVars, histVars, retryVars, welcomeVars, splitVars,
                   queueVars, flowVars, listenVars, ownVars, noteVars,
                   handlerVars, cacheVars>>

NextProcess ==
    \/ \E c \in Convs : ProcessCall(c)
    \/ \E c \in Convs : \E e \in BOOLEAN : StateGot(c, e)
    \/ \E c \in Convs : TemaGot(c)
    \/ \E c \in Convs : NoteUpdated(c)
    \/ \E c \in Convs : \E ok \in BOOLEAN : TypingDone(c, ok)
    \/ \E c \in Convs : \E k \in 0..ProcessChunks : AskReturns(c, k)
    \/ \E c \in Convs : \E e \in BOOLEAN : FlowReturns(c, e)
    \/ \E c \in Convs : EscalationSaved(c)
    \/ \E c \in Convs : PacingOver(c)
    \/ \E c \in Convs : ProcessThrows(c)

SpecProcess == Init /\ [][NextProcess]_vars

\* positions of the log before p that hold an event of the given kind
Before(log, p, kind) == {q \in 1..(p - 1) : log[q].kind = kind}

RetryInputs == 3    \* inbound messages in one behaviour

\* the body of the n-th inbound message is BodyOf(n): the bodies differ, so
\* responseCache (part_002:149) holds no answer for the message in hand

\* mutant: the lock is never seen as held
Locked_never(locks, c) == FALSE

\* userLocks.get(userId) as a condition (part_002:234, 272)
Locked(locks, c) == locks[c] = "true"

\* the while loop of handleQueue from its test to the first await of
\* processUserMessage (typing), or to userLocks.delete after the loop
QueueLoop(c, tasks) ==
    LET L == WelcomeLoop(tasks)
    IN IF L.drain = "processing"
       THEN [tasks |-> L.tasks, lock |-> L.lock,
             run |-> [NoRun EXCEPT !.pc = "typing", !.task = Head(tasks)],
             started |-> Append(qStarted[c], Head(tasks))]
       ELSE [tasks |-> L.tasks, lock |-> L.lock, run |-> NoRun,
             started |-> qStarted[c]]

InstallQueue(c, R) ==
    /\ qQueue' = [qQueue EXCEPT ![c] = R.tasks]
    /\ qLock' = [qLock EXCEPT ![c] = R.lock]
    /\ qRun' = [qRun EXCEPT ![c] = R.run]
    /\ qStarted' = [qStarted EXCEPT ![c] = R.started]
    /\ qReqs' = [qReqs EXCEPT ![c] = <<>>]

\* welcomeFlow addAction (part_002:258-276): reject when the queue is full,
\* else push the task and call handleQueue unless the lock is held;
\* handleQueue returns at once when the lock is held, else takes the lock
\* and enters its loop
QueueWelcome(c) ==
    /\ qMsgs < RetryInputs
    /\ qMsgs' = qMsgs + 1
    /\ IF QueueFull(qQueue[c])
       THEN UNCHANGED <<qQueue, qLock, qRun, qReqs, qStarted>>
       ELSE LET pushed == Append(qQueue[c], qMsgs + 1)
            IN IF ~Locked(qLock, c)
               THEN InstallQueue(c, QueueLoop(c, pushed))
               ELSE /\ qQueue' = [qQueue EXCEPT ![c] = pushed]
                    /\ UNCHANGED <<qLock, qRun, qReqs, qStarted>>
    /\ UNCHANGED <<appVars, histVars, retryVars, welcomeVars, splitVars,
                   processVars, flowVars, listenVars, ownVars, noteVars,
                   handlerVars, cacheVars>>

\* a step of the invocation of c that stays inside processUserMessage
QueueStep(c, from, run) ==
    /\ qRun[c].pc = from
    /\ qRun' = [qRun EXCEPT ![c] = run]
    /\ UNCHANGED <<qQueue, qLock, qStarted, qMsgs>>

\* typing is over (sendPresenceUpdate resolved or its rejection was
\* caught): the 5000 ms pause starts
QueueTypingDone(c) ==
    /\ QueueStep(c, "typing", [qRun[c] EXCEPT !.pc = "pause"])
    /\ UNCHANGED qReqs
    /\ UNCHANGED <<appVars, histVars, retryVars, welcomeVars, splitVars,
                   processVars, flowVars, listenVars, ownVars, noteVars,
                   handlerVars, cacheVars>>

\* the pause is over: getAssistantResponse is called and its first attempt
\* calls toAsk with the body of the task
QueuePauseDone(c) ==
    /\ QueueStep(c, "pause", [qRun[c] EXCEPT !.pc = "racing", !.attempt = 1])
    /\ qReqs' = [qReqs EXCEPT ![c] = Append(@, BodyOf(qRun[c].task))]
    /\ UNCHANGED <<appVars, histVars, retryVars, welcomeVars, splitVars,
                   processVars, flowVars, listenVars, ownVars, noteVars,
                   handlerVars, cacheVars>>

\* Promise.race resolves with a response of k non-empty paragraphs: the
\* first is handed to flowDynamic, or the finally block calls stopTyping
QueueAttemptOk(c, k) ==
    /\ QueueStep(c, "racing",
           IF k = 0 THEN [qRun[c] EXCEPT !.pc = "stop_typing"]
           ELSE [qRun[c] EXCEPT !.pc = "sending", !.left = k - 1])
    /\ UNCHANGED qReqs
    /\ UNCHANGED <<appVars, histVars, retryVars, welcomeVars, splitVars,
                   processVars, flowVars, listenVars, ownVars, noteVars,
                   handlerVars, cacheVars>>

\* the attempt fails, whatever the failure: wait and retry while attempts
\* are left, else getAssistantResponse throws and the catch block of
\* processUserMessage starts its random delay
QueueAttemptFail(c, failure) ==
    /\ QueueStep(c, "racing",
           IF RetriesLeft(qRun[c].attempt)
           THEN [qRun[c] EXCEPT !.pc = "backoff"]
           ELSE [qRun[c] EXCEPT !.pc = "apology_delay"])
    /\ UNCHANGED qReqs
    /\ UNCHANGED <<appVars, histVars, retryVars, welcomeVars, splitVars,
                   processVars, flowVars, listenVars, ownVars, noteVars,
                   handlerVars, cacheVars>>

\* the backoff wait is over: attempt++ and toAsk is called again with the
\* same message
QueueBackoffDone(c) ==
    /\ QueueStep(c, "backoff",
           [qRun[c] EXCEPT !.pc = "racing", !.attempt = @ + 1])
    /\ qReqs' = [qReqs EXCEPT ![c] = Append(@, BodyOf(qRun[c].task))]
    /\ UNCHANGED <<appVars, histVars, retryVars, welcomeVars, splitVars,
                   processVars, flowVars, listenVars, ownVars, noteVars,
                   handlerVars, cacheVars>>

\* flowDynamic of a chunk resolves (the 300 ms delay starts) or rejects
\* (the catch block starts its random delay)
QueueSendDone(c, ok) ==
    /\ QueueStep(c, "sending",
           [qRun[c] EXCEPT !.pc = IF ok THEN "pacing" ELSE "apology_delay"])
    /\ UNCHANGED qReqs
    /\ UNCHANGED <<appVars, histVars, retryVars, welcomeVars, splitVars,
                   processVars, flowVars, listenVars, ownVars, noteVars,
                   handlerVars, cacheVars>>

\* the 300 ms delay is over: next chunk, or the finally block
QueuePacingDone(c) ==
    /\ QueueStep(c, "pacing",
           IF qRun[c].left > 0
           THEN [qRun[c] EXCEPT !.pc = "sending", !.left = @ - 1]
           ELSE [qRun[c] EXCEPT !.pc = "stop_typing"])
    /\ UNCHANGED qReqs
    /\ UNCHANGED <<appVars, histVars, retryVars, welcomeVars, splitVars,
                   processVars, flowVars, listenVars, ownVars, noteVars,
                   handlerVars, cacheVars>>

\* randomDelay of the catch block is over: the apology is handed to
\* flowDynamic
QueueApologyDelayDone(c) ==
    /\ QueueStep(c, "apology_delay", [qRun[c] EXCEPT !.pc = "apology"])
    /\ UNCHANGED qReqs
    /\ UNCHANGED <<appVars, histVars, retryVars, welcomeVars, splitVars,
                   processVars, flowVars, listenVars, ownVars, noteVars,
                   handlerVars, cacheVars>>

\* flowDynamic of the apology resolves or rejects: the finally block calls
\* stopTyping
QueueApologyDone(c, ok) ==
    /\ QueueStep(c, "apology", [qRun[c] EXCEPT !.pc = "stop_typing"])
    /\ UNCHANGED qReqs
    /\ UNCHANGED <<appVars, histVars, retryVars, welcomeVars, splitVars,
                   processVars, flowVars, listenVars, ownVars, noteVars,
                   handlerVars, cacheVars>>

\* stopTyping is over and processUserMessage returns or throws (the catch
\* of handleQueue only logs): wait 500 ms when tasks are queued, else test
\* the loop condition, leave the loop and delete the lock
QueueTaskEnds(c) ==
    /\ qRun[c].pc = "stop_typing"
    /\ IF Len(qQueue[c]) > 0
       THEN /\ qRun' = [qRun EXCEPT ![c] = [NoRun EXCEPT !.pc = "waiting"]]
            /\ UNCHANGED <<qQueue, qLock, qStarted, qReqs>>
       ELSE InstallQueue(c, QueueLoop(c, qQueue[c]))
    /\ UNCHANGED qMsgs
    /\ UNCHANGED <<appVars, histVars, retryVars, welcomeVars, splitVars,
                   processVars, flowVars, listenVars, ownVars, noteVars,
                   handlerVars, cacheVars>>

\* the 500 ms wait between two tasks is over: back to the loop test
QueueWaitDone(c) ==
    /\ qRun[c].pc = "waiting"
    /\ InstallQueue(c, QueueLoop(c, qQueue[c]))
    /\ UNCHANGED qMsgs
    /\ UNCHANGED <<appVars, histVars, retryVars, welcomeVars, splitVars,
                   processVars, flowVars, listenVars, ownVars, noteVars,
                   handlerVars, cacheVars>>

NextQueueRetry ==
    \/ \E c \in Convs : QueueWelcome(c)
    \/ \E c \in Convs : QueueTypingDone(c)
    \/ \E c \in Convs : QueuePauseDone(c)
    \/ \E c \in Convs : \E k \in 0..ProcessChunks : QueueAttemptOk(c, k)
    \/ \E c \in Convs : \E failure \in Failures : QueueAttemptFail(c, failure)
    \/ \E c \in Convs : QueueBackoffDone(c)
    \/ \E c \in Convs : \E ok \in BOOLEAN : QueueSendDone(c, ok)
    \/ \E c \in Convs : QueuePacingDone(c)
    \/ \E c \in Convs : QueueApologyDelayDone(c)
    \/ \E c \in Convs : \E ok \in BOOLEAN : QueueApologyDone(c, ok)
    \/ \E c \in Convs : QueueTaskEnds(c)
    \/ \E c \in Convs : QueueWaitDone(c)

SpecQueueRetry == Init /\ [][NextQueueRetry]_vars

\* an attempt of the task in hand has failed and the call goes on
Retrying(c) ==
    \/ qRun[c].pc = "backoff"
    \/ qRun[c].pc = "racing" /\ qRun[c].attempt > 1

\* C22: while a task is being retried, every request to the backend is for
\* that task, the lock of its conversation is held, and no step pops
\* another task of the conversation as long as the retries go on.
C22_RetrySameTaskUnderLock ==
    /\ [](\A c \in Convs : Retrying(c) =>
              /\ qLock[c] = "true"
              /\ qRun[c].task = qStarted[c][Len(qStarted[c])]
              /\ \A i \in 1..Len(qReqs[c]) :
                     qReqs[c][i] = BodyOf(qRun[c].task))
    /\ [][\A c \in Convs : Retrying(c) =>
              \/ /\ qRun'[c].pc \in {"racing", "backoff"}
                 /\ qStarted'[c] = qStarted[c]
                 /\ qRun'[c].task = qRun[c].task
                 /\ qLock'[c] = "true"
              \/ /\ qRun'[c].pc \notin {"racing", "backoff"}
                 /\ qStarted'[c] = qStarted[c]]_vars

\* the second attempt for a task is with the backend while a later task of
\* the same conversation waits in the queue
C22_Witness ==
    \E c \in Convs :
        /\ qRun[c].pc = "racing" /\ qRun[c].attempt = 2
        /\ Len(qReqs[c]) = 2
        /\ Len(qQueue[c]) > 0


(* ====== the debounce buffers with Node's timers made explicit ========= *)
(* app.ts:287-336 (mainFlow), part_001:269-319 (mainFlow) and             *)
(* part_001:159-191 (handleManualMessage).  All three arm their timers    *)
(* with a delay of 6000 ms, so the armed timers fire in the order in      *)
(* which they were armed.  handleManualMessage is called by the listener  *)
(* for conversations that have a thread binding.                          *)
FlowInputs == 4     \* messages in one behaviour

\* the callback of the flow awaits the call it makes before it deletes the
\* buffer and the timer entry (part_001:308, part_001:183); in app.ts the
\* callback pushes the task and deletes both at once
AwaitsCall(f) == f \in {OldUser, OldManual}

\* mutant: the armed timer is not cancelled
ClearTimeout_noop(timers, id) == timers

\* clearTimeout(handle): no effect on a timer that has fired
ClearTimeout(timers, id) == {t \in timers : t.id # id}

\* messages.join('\n\n') of the bodies of the buffered messages
CombinedOf(messages) ==
    Join([i \in 1..Len(messages) |-> BodyOf(messages[i])])

\* the armed timers of flow f for conversation c
ArmedFor(f, c) == {t \in nodeTimers : t.flow = f /\ t.conv = c}

\* the last message of c in flow f, 0 when there is none
LastArrival(f, c) ==
    IF flowArrivals[f][c] = <<>> THEN 0
    ELSE flowArrivals[f][c][Len(flowArrivals[f][c])].msg

\* a message for conversation c reaches the flow f: get or create the
\* buffer, push the body, clearTimeout the handle in the timer map if
\* there is one, setTimeout a new timer and store its handle
FlowPush(f, c) ==
    /\ flowIn < FlowInputs
    /\ LET n == flowIn + 1
           old == flowBuffers[f][c]
           cleared == IF flowTimers[f][c] # 0
                      THEN ClearTimeout(nodeTimers, flowTimers[f][c])
                      ELSE nodeTimers
       IN /\ flowIn' = n
          /\ flowBuffers' = [flowBuffers EXCEPT ![f][c] =
                 [present |-> TRUE, messages |-> Append(old.messages, n)]]
          /\ nodeTimers' = cleared \cup
                 {[id |-> flowNextTimer, flow |-> f, conv |-> c, msg |-> n]}
          /\ flowTimers' = [flowTimers EXCEPT ![f][c] = flowNextTimer]
          /\ flowNextTimer' = flowNextTimer + 1
          /\ flowArrivals' = [flowArrivals EXCEPT ![f][c] = Append(@,
                 [msg |-> n, body |-> BodyOf(n),
                  newBurst |-> \A t \in ArmedFor(f, c) :
                                   t.msg # LastArrival(f, c)])]
    /\ UNCHANGED <<flowAwaits, flowCalls>>

\* mainFlow (or handleManualMessage) for a message it does not ignore
FlowMessage(f, c) ==
    /\ FlowPush(f, c)
    /\ UNCHANGED <<appVars, histVars, retryVars, welcomeVars, splitVars,
                   processVars, queueVars, listenVars, ownVars, noteVars,
                   handlerVars, cacheVars>>

\* the oldest armed timer fires and its callback runs to its await or to
\* its end: a non-empty buffer is combined and handed on (to the queue, to
\* processUserMessage or to syncManualMessageToOpenAI); the buffer and the
\* timer entry are deleted unless the callback awaits the call
FlowTimerFires(t) ==
    /\ t \in nodeTimers
    /\ \A u \in nodeTimers : t.id <= u.id
    /\ nodeTimers' = nodeTimers \ {t}
    /\ LET f == t.flow
           c == t.conv
           buffer == flowBuffers[f][c]
           nonEmpty == buffer.present /\ Len(buffer.messages) > 0
       IN /\ flowCalls' =
                 IF nonEmpty
                 THEN [flowCalls EXCEPT ![f][c] = Append(@,
                          [messages |-> buffer.messages,
                           text |-> CombinedOf(buffer.messages),
                           by |-> t.msg, last |-> LastArrival(f, c)])]
                 ELSE flowCalls
          /\ IF nonEmpty /\ AwaitsCall(f)
             THEN /\ flowAwaits' = flowAwaits \cup
                         {[flow |-> f, conv |-> c, id |-> t.id]}
                  /\ UNCHANGED <<flowBuffers, flowTimers>>
             ELSE /\ flowBuffers' = [flowBuffers EXCEPT ![f][c] = NoFlowBuffer]
                  /\ flowTimers' = [flowTimers EXCEPT ![f][c] = 0]
                  /\ UNCHANGED flowAwaits
    /\ UNCHANGED <<flowArrivals, flowNextTimer, flowIn>>
    /\ UNCHANGED <<appVars, histVars, retryVars, welcomeVars, splitVars,
                   processVars, queueVars, listenVars, ownVars, noteVars,
                   handlerVars, cacheVars>>

\* the call a callback awaits is over: syncManualMessageToOpenAI returns
\* (it catches every error), processUserMessage returns (ok) or throws; the
\* callback deletes the buffer and the timer entry unless the call threw
FlowCallDone(a, ok) ==
    /\ a \in flowAwaits
    /\ flowAwaits' = flowAwaits \ {a}
    /\ IF ok \/ a.flow = OldManual
       THEN /\ flowBuffers' = [flowBuffers EXCEPT ![a.flow][a.conv] =
                   NoFlowBuffer]
            /\ flowTimers' = [flowTimers EXCEPT ![a.flow][a.conv] = 0]
       ELSE UNCHANGED <<flowBuffers, flowTimers>>
    /\ UNCHANGED <<nodeTimers, flowCalls, flowArrivals, flowNextTimer,
                   flowIn>>
    /\ UNCHANGED <<appVars, histVars, retryVars, welcomeVars, splitVars,
                   processVars, queueVars, listenVars, ownVars, noteVars,
                   handlerVars, cacheVars>>

\* mainFlow of app.ts
NextAppTimers ==
    \/ \E c \in Convs : FlowMessage(AppUser, c)
    \/ \E t \in nodeTimers : FlowTimerFires(t)

SpecAppTimers == Init /\ [][NextAppTimers]_vars

\* mainFlow and handleManualMessage of part_001
NextOldFlow ==
    \/ \E f \in {OldUser, OldManual} : \E c \in Convs : FlowMessage(f, c)
    \/ \E t \in nodeTimers : FlowTimerFires(t)
    \/ \E a \in flowAwaits : \E ok \in BOOLEAN : FlowCallDone(a, ok)

SpecOldFlow == Init /\ [][NextOldFlow]_vars


\* the calls among made whose combined text holds message n
CallsIn(made, n) ==
    {i \in 1..Len(made) :
        \E j \in 1..Len(made[i].messages) : made[i].messages[j] = n}

\* the calls of flow f for c whose combined text holds message n
CallsWith(f, c, n) == CallsIn(flowCalls[f][c], n)

\* no timer of flow f is armed for c and no callback of it awaits its call
FlowIdle(f, c) ==
    /\ ArmedFor(f, c) = {}
    /\ \A a \in flowAwaits : ~(a.flow = f /\ a.conv = c)

\* every message of flow f is handed on at most once, and exactly once
\* when nothing is left to happen for its conversation
HandedOnOnce(f) ==
    \A c \in Convs : \A k \in 1..Len(flowArrivals[f][c]) :
        LET n == flowArrivals[f][c][k].msg
        IN /\ Cardinality(CallsWith(f, c, n)) <= 1
           /\ FlowIdle(f, c) => Cardinality(CallsWith(f, c, n)) = 1

\* C23: every inbound message handed to mainFlow appears in the combined
\* text of exactly one processUserMessage call, a message that arrives
\* while the flush callback still awaits processUserMessage included.
C23_InboundInExactlyOneCall == HandedOnOnce(OldUser)

\* C25: a conversation never has two armed debounce timers, the armed
\* timer is the one the latest message started and the one the timer map
\* holds, and every flush was made by the timer of the latest message.
C25_OneTimerLatestMessageFlushes ==
    \A c \in Convs :
        /\ Cardinality(ArmedFor(AppUser, c)) <= 1
        /\ \A t \in ArmedFor(AppUser, c) :
               /\ t.msg = LastArrival(AppUser, c)
               /\ t.id = flowTimers[AppUser][c]
        /\ \A i \in 1..Len(flowCalls[AppUser][c]) :
               flowCalls[AppUser][c][i].by = flowCalls[AppUser][c][i].last

\* a flush handed on two messages: the timer of the first was cancelled
C25_Witness ==
    \E c \in Convs : \E i \in 1..Len(flowCalls[AppUser][c]) :
        Len(flowCalls[AppUser][c][i].messages) >= 2

\* the messages in the buffer of c that no flush has read yet
Unread(f, c) ==
    SelectSeq(flowBuffers[f][c].messages,
              LAMBDA n : CallsWith(f, c, n) = {})

\* the timer map of flow f holds an armed timer for c
HoldsArmedTimer(f, c) ==
    \E t \in ArmedFor(f, c) : t.id = flowTimers[f][c]

\* C26: for the user buffers of app.ts and the manual buffers of part_001,
\* a conversation has unread buffered messages exactly when the timer map
\* holds an armed timer for it, and no step removes a buffer with a message
\* no flush has read or a timer entry whose timer is still armed.
C26_BufferAndTimerTogether ==
    /\ [](\A f \in {AppUser, OldManual} : \A c \in Convs :
              Unread(f, c) # <<>> <=> HoldsArmedTimer(f, c))
    /\ [][\A f \in {AppUser, OldManual} : \A c \in Convs :
              /\ (flowBuffers[f][c].present /\ ~flowBuffers'[f][c].present)
                     => \A j \in 1..Len(flowBuffers[f][c].messages) :
                            CallsIn(flowCalls'[f][c],
                                    flowBuffers[f][c].messages[j]) # {}
              /\ (flowTimers[f][c] # 0 /\ flowTimers'[f][c] = 0)
                     => \A t \in nodeTimers' : t.id # flowTimers[f][c]]_vars

\* the bursts of flow f for c whose timer has fired
FlowClosedBursts(f, c) ==
    LET bs == BurstsOf(flowArrivals[f][c])
    IN IF \E t \in ArmedFor(f, c) : t.msg = LastArrival(f, c)
       THEN SubSeq(bs, 1, Len(bs) - 1)
       ELSE bs

\* C27: every burst of operator messages (each arriving while the timer of
\* the one before is armed) whose timer has fired produced exactly one call
\* of syncManualMessageToOpenAI, with the bodies of the burst in arrival
\* order separated by "\n\n", whatever the user messages and user timers
\* of the conversation.
C27_OneSyncPerManualBurst ==
    \A c \in Convs :
        /\ Len(flowCalls[OldManual][c]) = Len(FlowClosedBursts(OldManual, c))
        /\ \A i \in 1..Len(flowCalls[OldManual][c]) :
               flowCalls[OldManual][c][i].text
                   = Separated(FlowClosedBursts(OldManual, c)[i])

\* C28: every operator message accepted by handleManualMessage is in the
\* content of exactly one syncManualMessageToOpenAI call, a message that
\* arrives while the callback awaits the previous call included.
C28_ManualInExactlyOneSync == HandedOnOnce(OldManual)


(* ====== registration of the messages.upsert listeners (app.ts:380) ====== *)
ListenerInputs == 5  \* provider events, bindings and outgoing messages in
                     \* one behaviour

\* the frame of the actions of this section
OthersUnchanged ==
    UNCHANGED <<appVars, histVars, retryVars, welcomeVars, splitVars,
                processVars, queueVars, flowVars, ownVars, noteVars,
                   handlerVars, cacheVars>>

\* socket.ev.on('messages.upsert', ...) (app.ts:392, 444): the emitter
\* appends the function to the listeners of the event
Registered(listeners, sock) == Append(listeners, sock)

\* app.ts:384-389, 440-442: the socket is read when the handler runs; without
\* socket.ev.on nothing is registered
RegisterOn(sock) ==
    upsertListeners' = IF sock = 0 THEN upsertListeners
                       ELSE Registered(upsertListeners, sock)

\* the provider opens a socket (the first connection or a reconnection):
\* provider.socket || provider.vendor is another object from now on
SocketCreated ==
    /\ listenIn < ListenerInputs
    /\ listenIn' = listenIn + 1
    /\ socket' = socket + 1
    /\ UNCHANGED <<upsertListeners, openTimers, hasThread, listenerSyncs,
                   appended>>
    /\ OthersUnchanged

\* provider.on('ready', ...) (app.ts:380-429)
ProviderReady ==
    /\ listenIn < ListenerInputs
    /\ listenIn' = listenIn + 1
    /\ RegisterOn(socket)
    /\ UNCHANGED <<socket, openTimers, hasThread, listenerSyncs, appended>>
    /\ OthersUnchanged

\* provider.on('connection.update', ...) (app.ts:432-476) up to setTimeout
ConnectionUpdate(connection) ==
    /\ listenIn < ListenerInputs
    /\ listenIn' = listenIn + 1
    /\ openTimers' = IF connection = "open" THEN openTimers + 1
                     ELSE openTimers
    /\ UNCHANGED <<socket, upsertListeners, hasThread, listenerSyncs,
                   appended>>
    /\ OthersUnchanged

\* the callback of setTimeout(..., 3000) (app.ts:439-474)
OpenTimerFires ==
    /\ openTimers > 0
    /\ openTimers' = openTimers - 1
    /\ RegisterOn(socket)
    /\ UNCHANGED <<socket, hasThread, listenerSyncs, appended, listenIn>>
    /\ OthersUnchanged

\* clientThreadIds.set(jid, thread_id) of processUserMessage (app.ts:162-174)
ThreadStored(c) ==
    /\ listenIn < ListenerInputs
    /\ ~hasThread[c]
    /\ listenIn' = listenIn + 1
    /\ hasThread' = [hasThread EXCEPT ![c] = TRUE]
    /\ UNCHANGED <<socket, upsertListeners, openTimers, listenerSyncs,
                   appended>>
    /\ OthersUnchanged

\* The socket emits messages.upsert with one text message of conversation
\* c that is not in botSentMessages: every listener on that socket runs up
\* to its await (app.ts:392-426, 444-471). An inbound message (fromMe false)
\* is skipped; an outgoing one of a conversation with a thread id starts
\* messages.create in every listener.
UpsertEmitted(c, fromMe) ==
    /\ listenIn < ListenerInputs
    /\ socket # 0
    /\ listenIn' = listenIn + 1
    /\ LET on == {i \in 1..Len(upsertListeners) :
                      upsertListeners[i] = socket}
       IN listenerSyncs' =
              IF fromMe /\ hasThread[c]
              THEN listenerSyncs \cup
                       {[msg |-> listenIn + 1, conv |-> c, listener |-> i] :
                            i \in on}
              ELSE listenerSyncs
    /\ UNCHANGED <<socket, upsertListeners, openTimers, hasThread, appended>>
    /\ OthersUnchanged

\* openai.beta.threads.messages.create of syncManualMessageToOpenAI
\* (app.ts:112-120) resolves (ok) or rejects
ListenerSyncDone(s, ok) ==
    /\ s \in listenerSyncs
    /\ listenerSyncs' = listenerSyncs \ {s}
    /\ appended' = IF ok THEN [appended EXCEPT ![s.conv] = Append(@, s.msg)]
                   ELSE appended
    /\ UNCHANGED <<socket, upsertListeners, openTimers, hasThread, listenIn>>
    /\ OthersUnchanged

NextListeners ==
    \/ SocketCreated
    \/ ProviderReady
    \/ \E connection \in {"open", "close"} : ConnectionUpdate(connection)
    \/ OpenTimerFires
    \/ \E c \in Convs : ThreadStored(c)
    \/ \E c \in Convs : \E fromMe \in BOOLEAN : UpsertEmitted(c, fromMe)
    \/ \E s \in listenerSyncs : \E ok \in BOOLEAN : ListenerSyncDone(s, ok)

SpecListeners == Init /\ [][NextListeners]_vars

\* C30: whatever 'ready' and 'connection.update' events registered
\* listeners, no operator message is appended twice to the thread of its
\* conversation.
C30_OperatorAppendedAtMostOnce ==
    \A c \in Convs : \A i, j \in 1..Len(appended[c]) :
        appended[c][i] = appended[c][j] => i = j

(* ============ mainFlow from its first line (app.ts:273) ============== *)
\* mutant: the handler does not look at key.fromMe
Ignored_never(fromMe) == FALSE

\* if (ctx.key.fromMe) return;  (app.ts:275, part_001:256, part_001:625)
Ignored(fromMe) == fromMe

\* the addAction handler of mainFlow for a message of conversation c whose
\* key.fromMe is fromMe
MainFlowEntry(f, c, fromMe) ==
    /\ fromMeSeen' = IF fromMe THEN fromMeSeen \cup {flowIn + 1}
                     ELSE fromMeSeen
    /\ IF Ignored(fromMe)
       THEN /\ flowIn < FlowInputs
            /\ flowIn' = flowIn + 1
            /\ UNCHANGED <<flowBuffers, flowTimers, nodeTimers, flowAwaits,
                           flowCalls, flowArrivals, flowNextTimer>>
       ELSE FlowPush(f, c)
    /\ UNCHANGED <<appVars, histVars, retryVars, welcomeVars, splitVars,
                   processVars, queueVars, listenVars, noteVars, handlerVars,
                   cacheVars>>

\* mainFlow of app.ts and of part_001 with messages of both directions
NextFromMe ==
    \/ \E f \in {AppUser, OldUser} : \E c \in Convs : \E fromMe \in BOOLEAN :
           MainFlowEntry(f, c, fromMe)
    \/ \E t \in nodeTimers : FlowTimerFires(t)
    \/ \E a \in flowAwaits : \E ok \in BOOLEAN : FlowCallDone(a, ok)

SpecFromMe == Init /\ [][NextFromMe]_vars

\* C35: a message handed to mainFlow with key.fromMe is in no user buffer,
\* no armed debounce timer was started by it, it is in the text of no task,
\* and the step that handles it leaves the buffers and the timers as they
\* were.
C35_FromMeNeverBuffered ==
    /\ [](\A n \in fromMeSeen :
             /\ \A t \in nodeTimers : t.msg # n
             /\ \A f \in Flows : \A c \in Convs :
                    /\ \A j \in 1..Len(flowBuffers[f][c].messages) :
                           flowBuffers[f][c].messages[j] # n
                    /\ CallsWith(f, c, n) = {})
    /\ [][fromMeSeen' # fromMeSeen
             => UNCHANGED <<flowBuffers, flowTimers, nodeTimers,
                            flowCalls>>]_vars

\* a message with key.fromMe came between two messages of a client, and
\* the two went out as one task
C35_Witness ==
    \E f \in Flows : \E c \in Convs : \E i \in 1..Len(flowCalls[f][c]) :
        LET ms == flowCalls[f][c][i].messages
        IN /\ Len(ms) >= 2
           /\ \E n \in fromMeSeen : ms[1] < n /\ n < ms[Len(ms)]

(* ========== syncManualMessageToOpenAI (part_001:118-156) ============= *)
\* the frame of the actions of this section
NoteFrame ==
    UNCHANGED <<appVars, histVars, retryVars, welcomeVars, splitVars,
                processVars, queueVars, flowVars, listenVars, ownVars,
                   handlerVars, cacheVars>>

\* saveThreadId(jid, threadId) (part_001:79-87)
ThreadSaved(c) ==
    /\ ~threadSaved[c]
    /\ threadSaved' = [threadSaved EXCEPT ![c] = TRUE]
    /\ UNCHANGED <<noteThread, noteRunning, noteReturned, noteCalls>>
    /\ NoteFrame

\* syncManualMessageToOpenAI(jid, messageContent) up to its first await:
\* false when getThreadId finds nothing, else the note is sent
NoteCall(c) ==
    /\ noteCalls < MaxNoteCalls
    /\ noteCalls' = noteCalls + 1
    /\ IF threadSaved[c]
       THEN /\ noteRunning' = noteRunning \cup
                   {[call |-> noteCalls + 1, conv |-> c, pc |-> "note"]}
            /\ UNCHANGED noteReturned
       ELSE /\ noteReturned' = [noteReturned EXCEPT ![noteCalls + 1] = "false"]
            /\ UNCHANGED noteRunning
    /\ UNCHANGED <<threadSaved, noteThread>>
    /\ NoteFrame

\* messages.create of the note (part_001:139-142) resolves (ok): the
\* operator message is sent; or rejects: the catch block returns false
NoteCreated(r, ok) ==
    /\ r \in noteRunning
    /\ r.pc = "note"
    /\ IF ok
       THEN /\ noteThread' = [noteThread EXCEPT ![r.conv] =
                   Append(@, [kind |-> "note", call |-> r.call])]
            /\ noteRunning' = (noteRunning \ {r}) \cup
                   {[r EXCEPT !.pc = "message"]}
            /\ UNCHANGED noteReturned
       ELSE /\ noteRunning' = noteRunning \ {r}
            /\ noteReturned' = [noteReturned EXCEPT ![r.call] = "false"]
            /\ UNCHANGED noteThread
    /\ UNCHANGED <<threadSaved, noteCalls>>
    /\ NoteFrame

\* messages.create of the operator message (part_001:145-148) resolves:
\* return true; or rejects: the catch block returns false
MessageCreated(r, ok) ==
    /\ r \in noteRunning
    /\ r.pc = "message"
    /\ noteRunning' = noteRunning \ {r}
    /\ noteThread' = IF ok
                     THEN [noteThread EXCEPT ![r.conv] =
                              Append(@, [kind |-> "manual", call |-> r.call])]
                     ELSE noteThread
    /\ noteReturned' = [noteReturned EXCEPT ![r.call] =
                            IF ok THEN "true" ELSE "false"]
    /\ UNCHANGED <<threadSaved, noteCalls>>
    /\ NoteFrame

NextNote ==
    \/ \E c \in Convs : ThreadSaved(c)
    \/ \E c \in Convs : NoteCall(c)
    \/ \E r \in noteRunning : \E ok \in BOOLEAN : NoteCreated(r, ok)
    \/ \E r \in noteRunning : \E ok \in BOOLEAN : MessageCreated(r, ok)

SpecNote == Init /\ [][NextNote]_vars

\* the positions of the thread of c that hold the entry of this kind
\* appended by call n
NotePositions(c, kind, n) ==
    {p \in 1..Len(noteThread[c]) :
        noteThread[c][p] = [kind |-> kind, call |-> n]}

\* C36: once a call of syncManualMessageToOpenAI has returned, whatever
\* its result, the thread does not hold its note without its operator
\* message right behind it; and the call returned true only if both were
\* appended.
C36_NoteAndMessageArePair ==
    \A n \in 1..MaxNoteCalls :
        /\ noteReturned[n] # "none" =>
               \A c \in Convs : \A p \in NotePositions(c, "note", n) :
                   p + 1 \in NotePositions(c, "manual", n)
        /\ noteReturned[n] = "true" =>
               \E c \in Convs : /\ NotePositions(c, "note", n) # {}
                                /\ NotePositions(c, "manual", n) # {}

(* ====== OpenAiHandler.processMessage (gemini_handler.ts:92-140) ====== *)
\* the frame of the actions of this section
HandlerFrame ==
    UNCHANGED <<appVars, histVars, retryVars, welcomeVars, splitVars,
                processVars, queueVars, flowVars, listenVars, ownVars,
                noteVars, cacheVars>>

\* the condition of the polling loop (gemini_handler.ts:116)
KeepsPolling(status) == status # "completed" /\ status # "failed"

\* the statuses a run ends in, and requires_action, which the handler
\* never answers and so ends in expired
FinalStatuses == {"completed", "failed", "cancelled", "expired"}

\* processMessage(userId, message) up to its first await: threads.create
\* for a user without entry, else messages.create on the thread of the entry
HandlerCall(n, u) ==
    /\ handlerCalls[n].pc = "none"
    /\ \A m \in 1..(n - 1) : handlerCalls[m].pc # "none"
    /\ LET threadId == userThreadMap[u]
       IN handlerCalls' = [handlerCalls EXCEPT ![n] =
              [NoCall EXCEPT !.user = u, !.thread = threadId,
                             !.pc = IF threadId = 0 THEN "creating"
                                    ELSE "adding"]]
    /\ UNCHANGED <<userThreadMap, threadOwners, threadMessages>>
    /\ HandlerFrame

\* threads.create resolves: the new thread is stored for the user
ThreadCreated(n) ==
    /\ handlerCalls[n].pc = "creating"
    /\ LET threadId == Len(threadOwners) + 1
       IN /\ threadOwners' = Append(threadOwners, handlerCalls[n].user)
          /\ userThreadMap' = [userThreadMap EXCEPT
                 ![handlerCalls[n].user] = threadId]
          /\ handlerCalls' = [handlerCalls EXCEPT ![n].thread = threadId,
                                                  ![n].pc = "adding"]
    /\ UNCHANGED threadMessages
    /\ HandlerFrame

\* messages.create resolves: the message is in the thread
MessageAdded(n) ==
    /\ handlerCalls[n].pc = "adding"
    /\ threadMessages' = threadMessages \cup
           {[thread |-> handlerCalls[n].thread,
             user |-> handlerCalls[n].user, call |-> n]}
    /\ handlerCalls' = [handlerCalls EXCEPT ![n].pc = "starting"]
    /\ UNCHANGED <<userThreadMap, threadOwners>>
    /\ HandlerFrame

\* runs.create resolves: the run is queued and the first retrieve is sent
RunCreated(n) ==
    /\ handlerCalls[n].pc = "starting"
    /\ handlerCalls' = [handlerCalls EXCEPT ![n].run = "queued",
                                            ![n].pc = "retrieving"]
    /\ UNCHANGED <<userThreadMap, threadOwners, threadMessages>>
    /\ HandlerFrame

\* the backend moves the run on
RunAdvances(n, status) ==
    /\ handlerCalls[n].pc \in {"retrieving", "sleeping"}
    /\ \/ handlerCalls[n].run = "queued" /\ status = "in_progress"
       \/ /\ handlerCalls[n].run = "in_progress"
          /\ status \in FinalStatuses \cup {"requires_action"}
       \/ handlerCalls[n].run = "requires_action" /\ status = "expired"
    /\ handlerCalls' = [handlerCalls EXCEPT ![n].run = status]
    /\ UNCHANGED <<userThreadMap, threadOwners, threadMessages>>
    /\ HandlerFrame

\* runs.retrieve resolves: the loop test, then the 1000 ms wait, the
\* apology for a failed run, or messages.list
Retrieved(n) ==
    /\ handlerCalls[n].pc = "retrieving"
    /\ LET status == handlerCalls[n].run
       IN handlerCalls' = [handlerCalls EXCEPT
              ![n].seen = status,
              ![n].pc = IF KeepsPolling(status) THEN "sleeping"
                        ELSE IF status = "failed" THEN "returned"
                        ELSE "listing"]
    /\ UNCHANGED <<userThreadMap, threadOwners, threadMessages>>
    /\ HandlerFrame

\* the 1000 ms wait of the loop is over: retrieve again
PollWaitDone(n) ==
    /\ handlerCalls[n].pc = "sleeping"
    /\ handlerCalls' = [handlerCalls EXCEPT ![n].pc = "retrieving"]
    /\ UNCHANGED <<userThreadMap, threadOwners, threadMessages>>
    /\ HandlerFrame

\* messages.list resolves: processMessage returns a text
Listed(n) ==
    /\ handlerCalls[n].pc = "listing"
    /\ handlerCalls' = [handlerCalls EXCEPT ![n].pc = "returned"]
    /\ UNCHANGED <<userThreadMap, threadOwners, threadMessages>>
    /\ HandlerFrame

\* the call of the API that processMessage awaits rejects: nothing catches
\* it, processMessage throws
HandlerThrows(n) ==
    /\ handlerCalls[n].pc \in {"creating", "adding", "starting",
                               "retrieving", "listing"}
    /\ handlerCalls' = [handlerCalls EXCEPT ![n].pc = "thrown"]
    /\ UNCHANGED <<userThreadMap, threadOwners, threadMessages>>
    /\ HandlerFrame

NextHandler ==
    \/ \E n \in 1..MaxHandlerCalls : \E u \in Users : HandlerCall(n, u)
    \/ \E n \in 1..MaxHandlerCalls : ThreadCreated(n)
    \/ \E n \in 1..MaxHandlerCalls : MessageAdded(n)
    \/ \E n \in 1..MaxHandlerCalls : RunCreated(n)
    \/ \E n \in 1..MaxHandlerCalls :
           \E status \in FinalStatuses \cup {"in_progress", "requires_action"} :
               RunAdvances(n, status)
    \/ \E n \in 1..MaxHandlerCalls : Retrieved(n)
    \/ \E n \in 1..MaxHandlerCalls : PollWaitDone(n)
    \/ \E n \in 1..MaxHandlerCalls : Listed(n)
    \/ \E n \in 1..MaxHandlerCalls : HandlerThrows(n)

SpecHandler == Init /\ [][NextHandler]_vars

\* C37: over any sequence of processMessage calls, overlapping ones
\* included, at most one thread is created for each userId and all the
\* messages of one user are added to the same thread.
C37_OneThreadPerUser ==
    \A u \in Users :
        /\ Cardinality({t \in 1..Len(threadOwners) : threadOwners[t] = u})
               <= 1
        /\ \A x, y \in threadMessages :
               (x.user = u /\ y.user = u) => x.thread = y.thread

\* every call of the API that processMessage awaits resolves or rejects,
\* the 1000 ms wait ends, and the backend brings every run to an end
SpecHandlerRuns ==
    /\ SpecHandler
    /\ \A n \in 1..MaxHandlerCalls :
           /\ WF_vars(ThreadCreated(n))
           /\ WF_vars(MessageAdded(n))
           /\ WF_vars(RunCreated(n))
           /\ WF_vars(\E status \in FinalStatuses \cup
                                       {"in_progress", "requires_action"} :
                          RunAdvances(n, status))
           /\ WF_vars(Retrieved(n))
           /\ WF_vars(PollWaitDone(n))
           /\ WF_vars(Listed(n))

\* C38: every call of processMessage ends, by return or by throw, whatever
\* status its run ends in: completed, failed, cancelled or expired (a run
\* that requires action is never answered and expires).
C38_ProcessMessageTerminates ==
    \A n \in 1..MaxHandlerCalls :
        (handlerCalls[n].pc # "none")
            ~> (handlerCalls[n].pc \in {"returned", "thrown"})

(* == getAssistantResponse (part_002:146) for several conversations ==== *)
CacheInputs == 3    \* calls of getAssistantResponse in one behaviour

\* the frame of the actions of this section
CacheFrame ==
    UNCHANGED <<appVars, histVars, retryVars, welcomeVars, splitVars,
                processVars, queueVars, flowVars, listenVars, ownVars,
                noteVars, handlerVars>>

\* What the assistant answers on the thread of conversation c once toAsk
\* has put the messages of thread on it: the answer is made from that
\* thread only.
AnswerOf(c, thread) ==
    "to " \o thread[Len(thread)] \o " of " \o c
          \o " after " \o ToString(Len(thread) - 1)

\* the call of c returns response
Deliver(c, message, response, asked, thread) ==
    /\ delivered' = [delivered EXCEPT ![c] = Append(@,
           [msg |-> message, response |-> response, asked |-> asked,
            thread |-> thread])]
    /\ cacheRun' = [cacheRun EXCEPT ![c] = NoCacheRun]

\* getAssistantResponse(assistantId, message, state) with the state of
\* conversation c: a cached answer is returned at once, otherwise the
\* first attempt calls toAsk
CacheCall(c, message) ==
    /\ cacheIn < CacheInputs
    /\ cacheRun[c].pc = "idle"
    /\ cacheIn' = cacheIn + 1
    /\ IF CacheHas(sharedCache, CacheKey(message))
       THEN Deliver(c, message, CacheGet(sharedCache, CacheKey(message)), 0,
                    askedOn[c])
       ELSE /\ cacheRun' = [cacheRun EXCEPT ![c] =
                   [pc |-> "racing", msg |-> message, attempt |-> 1,
                    asked |-> 1]]
            /\ UNCHANGED delivered
    /\ UNCHANGED <<sharedCache, askedOn>>
    /\ CacheFrame

\* Promise.race resolves with the string of toAsk, which has put the
\* message on the thread of the conversation's state
CacheAttemptOk(c) ==
    /\ cacheRun[c].pc = "racing"
    /\ LET message == cacheRun[c].msg
           thread == Append(askedOn[c], message)
           response == AnswerOf(c, thread)
       IN /\ askedOn' = [askedOn EXCEPT ![c] = thread]
          /\ sharedCache' =
                 IF Len(message) < CACHEABLE_MESSAGE
                        /\ Len(response) < CACHEABLE_RESPONSE
                 THEN CacheSet(sharedCache, CacheKey(message), response)
                 ELSE sharedCache
          /\ Deliver(c, message, response, cacheRun[c].asked, thread)
    /\ UNCHANGED cacheIn
    /\ CacheFrame

\* the attempt fails, with the message put on the thread or not (added):
\* wait and retry, or leave the loop and throw
CacheAttemptFail(c, added) ==
    /\ cacheRun[c].pc = "racing"
    /\ askedOn' = IF added
                  THEN [askedOn EXCEPT ![c] = Append(@, cacheRun[c].msg)]
                  ELSE askedOn
    /\ cacheRun' = [cacheRun EXCEPT ![c] =
           IF RetriesLeft(cacheRun[c].attempt)
           THEN [@ EXCEPT !.pc = "backoff"]
           ELSE NoCacheRun]
    /\ UNCHANGED <<sharedCache, delivered, cacheIn>>
    /\ CacheFrame

\* the backoff wait is over: attempt++ and toAsk is called again
CacheBackoffDone(c) ==
    /\ cacheRun[c].pc = "backoff"
    /\ cacheRun' = [cacheRun EXCEPT ![c] =
           [@ EXCEPT !.pc = "racing", !.attempt = @ + 1, !.asked = @ + 1]]
    /\ UNCHANGED <<sharedCache, askedOn, delivered, cacheIn>>
    /\ CacheFrame

NextCache ==
    \/ \E c \in Convs : \E message \in Messages : CacheCall(c, message)
    \/ \E c \in Convs : CacheAttemptOk(c)
    \/ \E c \in Convs : \E added \in BOOLEAN : CacheAttemptFail(c, added)
    \/ \E c \in Convs : CacheBackoffDone(c)

SpecCache == Init /\ [][NextCache]_vars

\* C39: every response getAssistantResponse returns to a conversation is
\* the answer of the assistant on that conversation's own thread with the
\* message of the call as its last message, and toAsk was called on that
\* thread for it. The answer on a thread is a function of the thread, so
\* this is what makes the responses of a conversation the same in two runs
\* that differ in the messages of the other conversations only.
C39_ResponseFromOwnThread ==
    \A c \in Convs : \A i \in 1..Len(delivered[c]) :
        LET d == delivered[c][i]
        IN /\ d.asked >= 1
           /\ Len(d.thread) >= 1
           /\ d.thread[Len(d.thread)] = d.msg
           /\ d.response = AnswerOf(c, d.thread)
====
